---- MODULE Spec2Model ----
(***************************************************************************)
(* Typed resource crawler (crawlResource / ResourceCrawler /               *)
(* getNestedProperty) of                                                   *)
(* src/examples/medplum-demo-bots/src/health-gorilla/scripts/              *)
(* deploy-health-gorilla.ts, lines 688-816, and the client tests over      *)
(* mockFetch of the same file, lines 253-686.                              *)
(*                                                                         *)
(* Specifications                                                          *)
(*  - Spec, FairSpec: one crawlResource call;                              *)
(*  - NestedSpec: one getNestedProperty call;                              *)
(*  - ClientSpec, FairClientSpec: client.get calls against mockFetch;      *)
(*  - ElementsSpec: the elements ElementsInput renders                     *)
(*    (packages/react/src/ElementsInput/ElementsInput.tsx);                *)
(*  - DeploySpec: main of the deploy script (lines 39-252);                *)
(*  - SliceSpec: the add, remove and edit controls of SliceInput           *)
(*    (packages/react/src/SliceInput/SliceInput.tsx);                      *)
(*  - ExpandSpec, FairExpandSpec: the expand-profile handler               *)
(*    (unnamed/part_002).                                                  *)
(*                                                                         *)
(* The recursion of crawlObject -> crawlProperty -> crawlPropertyValue ->  *)
(* crawlObject is unfolded into an explicit call stack; each visitor       *)
(* dispatch site is one step, so that the order of the callbacks and the   *)
(* point where one of them throws are visible in the state.                *)
(*                                                                         *)
(* Representation                                                          *)
(*  - a dotted string ("Patient.name.given") is the sequence of its        *)
(*    segments (<<"Patient","name","given">>); `${path}.${key}` is then    *)
(*    path \o key and key.split('.') yields the segments of the key;       *)
(*  - a raw JS object is [oid, resourceType, fields]; fields is the        *)
(*    ordered list of its own properties; resourceType = "" when the       *)
(*    object carries no resourceType;                                      *)
(*  - a TypedValue is [type, value];                                       *)
(*  - TypedValue | TypedValue[] | undefined is [kind, tvs] with kind in    *)
(*    {"undefined", "one", "many"}.                                        *)
(***************************************************************************)
EXTENDS Integers, Sequences, FiniteSets, TLC

\* ------------------------------------------------------------------ bounds
\* largest number of entries of Patient.name in the crawled instances
MaxNames == 2
\* largest number of client.get calls made one after the other
MaxGets == 3
\* largest number of requests one client.get call gives to fetch
MaxFetches == 4
\* largest number of entries of an elements mapping
MaxElements == 3
\* number of integration secrets the deploy script is run with
NumSecrets == 2
\* largest number of secrets of the project on the server
MaxProjectSecrets == 2
\* number of bots the deploy script is run with
NumBots == 2
\* largest max of a slice
MaxSlice == 2
\* largest number of add, remove and edit actions on a SliceInput
MaxChanges == 3
\* largest number of profiles the element types of one profile name
MaxRefs == 2
\* the number of loadNestedStructureDefinitions calls within each other that
\* are kept, the innermost ones: more than the profiles stored, so that
\* among the calls kept there is one waiting for its own profile
MaxDepth == 4

\* ------------------------------------------------------- values and schemas
NoSchema == [name |-> "", elements |-> <<>>]
NoPath == <<>>
NoProfile == ""
NoError == [source |-> "", type |-> "", seq |-> 0]

Undefined == [kind |-> "undefined", tvs |-> <<>>]
One(tv) == [kind |-> "one", tvs |-> <<tv>>]
Many(tvs) == [kind |-> "many", tvs |-> tvs]

Field(k, v) == [key |-> k, val |-> v]
Raw(oid, resourceType, fields) == [oid |-> oid, resourceType |-> resourceType, fields |-> fields]
TV(type, raw) == [type |-> type, value |-> raw]
Prim(type, oid) == TV(type, Raw(oid, "", <<>>))

Reverse(s) == [i \in 1..Len(s) |-> s[Len(s) + 1 - i]]

Element(key, type, max) == [key |-> key, type |-> type, max |-> max]

\* The Schema Provider's table: type name -> ordered element mapping.
\* A type name that is not in the table cannot be resolved. The schema
\* graph is cyclic: a resource may contain resources, which may contain
\* resources.
DataTypes ==
  [Patient |->
     [name |-> "Patient",
      elements |-> << Element(<<"id">>, "id", 1),
                      Element(<<"name">>, "HumanName", 1000),
                      Element(<<"photo">>, "Attachment", 0),
                      Element(<<"contained">>, "Resource", 1000),
                      Element(<<"extension">>, "Extension", 1000) >>],
   HumanName |->
     [name |-> "HumanName",
      elements |-> << Element(<<"given">>, "string", 1000),
                      Element(<<"period">>, "Period", 1) >>],
   Period |->
     [name |-> "Period",
      elements |-> << Element(<<"start">>, "dateTime", 1) >>],
   Attachment |->
     [name |-> "Attachment",
      elements |-> << Element(<<"url">>, "url", 1) >>],
   Observation |->
     [name |-> "Observation",
      elements |-> << Element(<<"status">>, "code", 1),
                      Element(<<"contained">>, "Resource", 1000) >>]]

\* A profile schema the caller may pass to crawlResource: other key order
\* than the base type, and a dotted key.
ProfileSchema ==
  [name |-> "PatientProfile",
   elements |-> << Element(<<"name">>, "HumanName", 1000),
                   Element(<<"name", "period">>, "Period", 1),
                   Element(<<"photo">>, "Attachment", 0),
                   Element(<<"id">>, "id", 1) >>]

\* A schema with the keys {id, name} only, passed by the caller.
SimpleSchema ==
  [name |-> "Patient",
   elements |-> << Element(<<"id">>, "id", 1),
                   Element(<<"name">>, "HumanName", 1000) >>]

\* getDataType(type): the schema of a known type; it throws for any other.
KnownType(type) == type \in DOMAIN DataTypes
getDataType(type) == DataTypes[type]

\* String.prototype.charAt(0) on the type names that occur.
charAt0(type) ==
  CASE type = "Patient" -> "P"
    [] type = "HumanName" -> "H"
    [] type = "Period" -> "P"
    [] type = "Attachment" -> "A"
    [] type = "Observation" -> "O"
    [] type = "Extension_race" -> "E"
    [] type = "id" -> "i"
    [] type = "string" -> "s"
    [] type = "dateTime" -> "d"
    [] type = "url" -> "u"
    [] type = "code" -> "c"
    [] OTHER -> ""

LowerCaseLetters ==
  {"a", "b", "c", "d", "e", "f", "g", "h", "i", "j", "k", "l", "m",
   "n", "o", "p", "q", "r", "s", "t", "u", "v", "w", "x", "y", "z"}

\* isLowerCase(c): c === c.toLowerCase() && c !== c.toUpperCase()
isLowerCase(c) == c \in LowerCaseLetters

\* isResource(value): the value carries a resourceType
isResource(value) == value.resourceType # ""

\* toTypedValue(resource) for a resource: typed by its resourceType
toTypedValue(resource) == TV(resource.resourceType, resource)

\* arrayify(x): an array stays, a single value becomes a one-element array
arrayify(propertyValue) == propertyValue.tvs

\* JS truthiness of TypedValue | TypedValue[] | undefined: only undefined
\* is falsy (an empty array is truthy)
Truthy(propertyValue) == propertyValue.kind # "undefined"

\* getTypedPropertyValue(value, prop, profileUrl): the typed value(s) of
\* the own property prop, undefined when the instance does not carry it.
getTypedPropertyValue(value, prop, profileUrl) ==
  LET fields == value.value.fields
      idx == {i \in 1..Len(fields) : fields[i].key = prop}
  IN IF idx = {} THEN Undefined ELSE fields[CHOOSE i \in idx : TRUE].val

\* ------------------------------------------------------- getNestedProperty
RECURSIVE ResolveEach(_, _, _)
\* the body of `for (const element of current)`: one push per element
ResolveEach(elements, prop, profileUrl) ==
  IF elements = <<>> THEN <<>>
  ELSE <<getTypedPropertyValue(Head(elements), prop, profileUrl)>>
       \o ResolveEach(Tail(elements), prop, profileUrl)

RECURSIVE Singly(_)
Singly(tvs) == IF tvs = <<>> THEN <<>> ELSE <<One(Head(tvs))>> \o Singly(Tail(tvs))

RECURSIVE SplitArrays(_)
SplitArrays(propertyValues) ==
  IF propertyValues = <<>> THEN <<>>
  ELSE (IF Head(propertyValues).kind = "many" THEN Singly(Head(propertyValues).tvs)
        ELSE <<Head(propertyValues)>>)
       \o SplitArrays(Tail(propertyValues))

RECURSIVE NextValuesFlattened(_, _, _)
\* mutant: an array resolved for a segment is pushed element by element
NextValuesFlattened(propertyValues, prop, profileUrl) ==
  IF propertyValues = <<>> THEN <<>>
  ELSE LET current == Head(propertyValues)
           pushed == IF current.kind = "many"
                       THEN ResolveEach(current.tvs, prop, profileUrl)
                     ELSE IF current.kind # "undefined"
                       THEN <<getTypedPropertyValue(current.tvs[1], prop, profileUrl)>>
                     ELSE <<>>
       IN SplitArrays(pushed) \o NextValuesFlattened(Tail(propertyValues), prop, profileUrl)

RECURSIVE NextValues(_, _, _)
\* the body of `for (const current of propertyValues)`
NextValues(propertyValues, prop, profileUrl) ==
  IF propertyValues = <<>> THEN <<>>
  ELSE LET current == Head(propertyValues)
           pushed == IF current.kind = "many"
                       THEN ResolveEach(current.tvs, prop, profileUrl)
                     ELSE IF current.kind # "undefined"
                       THEN <<getTypedPropertyValue(current.tvs[1], prop, profileUrl)>>
                     ELSE <<>>
       IN pushed \o NextValues(Tail(propertyValues), prop, profileUrl)

RECURSIVE ResolveNested(_, _, _)
\* the loop `for (const prop of nestedProps)`
ResolveNested(propertyValues, nestedProps, profileUrl) ==
  IF nestedProps = <<>> THEN propertyValues
  ELSE ResolveNested(NextValues(propertyValues, Head(nestedProps), profileUrl),
                     Tail(nestedProps), profileUrl)

\* mutant: the undefined results are filtered out of the resolved list
getNestedPropertyDefined(value, key, profileUrl) ==
  IF key = <<"$this">> THEN <<One(value)>>
  ELSE SelectSeq(ResolveNested(<<getTypedPropertyValue(value, Head(key), profileUrl)>>,
                               Tail(key), profileUrl),
                 Truthy)

\* mutant: '$this' is the value itself only when no profileUrl is given
getNestedPropertyThisUnlessProfile(value, key, profileUrl) ==
  IF key = <<"$this">> /\ profileUrl = NoProfile THEN <<One(value)>>
  ELSE ResolveNested(<<getTypedPropertyValue(value, Head(key), profileUrl)>>,
                     Tail(key), profileUrl)

getNestedProperty(value, key, profileUrl) ==
  IF key = <<"$this">> THEN <<One(value)>>
  ELSE ResolveNested(<<getTypedPropertyValue(value, Head(key), profileUrl)>>,
                     Tail(key), profileUrl)

RECURSIVE CountNested(_, _, _)
\* the getTypedPropertyValue calls of the loop over nestedProps: one for
\* each value pushed
CountNested(propertyValues, nestedProps, profileUrl) ==
  IF nestedProps = <<>> THEN 0
  ELSE LET next == NextValues(propertyValues, Head(nestedProps), profileUrl)
       IN Len(next) + CountNested(next, Tail(nestedProps), profileUrl)

\* the number of getTypedPropertyValue calls getNestedProperty makes
AccessorCalls(value, key, profileUrl) ==
  IF key = <<"$this">> THEN 0
  ELSE 1 + CountNested(<<getTypedPropertyValue(value, Head(key), profileUrl)>>,
                       Tail(key), profileUrl)

\* ------------------------------------------------------------ crawler parts
\* the test `if (initialPath)`: undefined and '' are falsy
PathGiven(initialPath) == initialPath \notin {NoPath, <<"">>}

\* mutant: the path of a property is its key alone
PropertyPathKeyOnly(path, key) == key

\* `${path}.${key}`
PropertyPath(path, key) == path \o key

\* mutant: the keys are taken in reverse order
ObjectKeysReversed(schema) ==
  [i \in 1..Len(schema.elements) |-> schema.elements[Len(schema.elements) + 1 - i].key]

\* Object.keys(schema.elements): the declared keys in declared order
\* (no FHIR element name is an integer-like string, so insertion order)
ObjectKeys(schema) == [i \in 1..Len(schema.elements) |-> schema.elements[i].key]

RECURSIVE ValuesToCrawlReversed(_)
\* mutant: the resolved values are crawled last to first
ValuesToCrawlReversed(propertyValues) ==
  IF propertyValues = <<>> THEN <<>>
  ELSE ValuesToCrawlReversed(Tail(propertyValues))
       \o (IF Truthy(Head(propertyValues)) THEN Reverse(arrayify(Head(propertyValues)))
           ELSE <<>>)

RECURSIVE ValuesToCrawl(_)
\* the values crawlProperty hands to crawlPropertyValue, in order: the two
\* nested loops over propertyValues and arrayify(propertyValue)
ValuesToCrawl(propertyValues) ==
  IF propertyValues = <<>> THEN <<>>
  ELSE (IF Truthy(Head(propertyValues)) THEN arrayify(Head(propertyValues)) ELSE <<>>)
       \o ValuesToCrawl(Tail(propertyValues))

\* mutant: every resolved value is crawled as an object
IsCrawledAlways(value) == TRUE

\* crawlPropertyValue's test: the value is crawled as an object
IsCrawled(value) == ~isLowerCase(charAt0(value.type))

\* mutant: the nested value is crawled with the schema of its parent
SchemaForParent(value, parentSchema) == parentSchema

\* the schema crawlPropertyValue crawls value with
SchemaFor(value, parentSchema) == getDataType(value.type)

\* ---------------------------------------------------------------- instances
GivenTV(i) == Prim("string", <<"given", i>>)

PeriodTV(i) ==
  TV("Period", Raw(<<"period", i>>, "",
                   <<Field("start", One(Prim("dateTime", <<"start", i>>)))>>))

\* the i-th Patient.name entry; the odd ones carry a period
HumanNameTV(i) ==
  TV("HumanName",
     Raw(<<"name", i>>, "",
         <<Field("given", Many(<<GivenTV(i)>>))>>
         \o (IF i % 2 = 1 THEN <<Field("period", One(PeriodTV(i)))>> ELSE <<>>)))

Names(n) == [i \in 1..n |-> HumanNameTV(i)]

PhotoTV ==
  TV("Attachment", Raw(<<"photo", 0>>, "",
                       <<Field("url", One(Prim("url", <<"url", 0>>)))>>))

\* a contained resource: a nested value that carries a resourceType
ContainedTV ==
  TV("Observation", Raw(<<"contained", 0>>, "Observation",
                        <<Field("status", One(Prim("code", <<"status", 0>>)))>>))

\* a value whose type the Schema Provider does not know
ExtensionTV == TV("Extension_race", Raw(<<"extension", 0>>, "", <<>>))

NameValues ==
  {Undefined, One(HumanNameTV(1))} \cup {Many(Names(n)) : n \in 0..MaxNames}

PatientResource(hasId, nameValue, hasPhoto, hasContained, hasExtension, reversed) ==
  LET fields ==
        (IF hasId THEN <<Field("id", One(Prim("id", <<"id", 0>>)))>> ELSE <<>>)
        \o (IF nameValue.kind # "undefined" THEN <<Field("name", nameValue)>> ELSE <<>>)
        \o (IF hasPhoto THEN <<Field("photo", Many(<<PhotoTV>>))>> ELSE <<>>)
        \o (IF hasContained THEN <<Field("contained", Many(<<ContainedTV>>))>> ELSE <<>>)
        \o (IF hasExtension THEN <<Field("extension", Many(<<ExtensionTV>>))>> ELSE <<>>)
  IN Raw(<<"root", 0>>, "Patient", IF reversed THEN Reverse(fields) ELSE fields)

\* a resource whose resourceType the Schema Provider does not know
UnknownResource(nameValue) ==
  Raw(<<"root", 0>>, "Basic",
      IF nameValue.kind # "undefined" THEN <<Field("name", nameValue)>> ELSE <<>>)

Resources ==
  {PatientResource(hasId, nameValue, hasPhoto, hasContained, hasExtension, reversed) :
     hasId \in BOOLEAN, nameValue \in NameValues, hasPhoto \in BOOLEAN,
     hasContained \in BOOLEAN, hasExtension \in BOOLEAN, reversed \in BOOLEAN}
  \cup {UnknownResource(nameValue) : nameValue \in {Undefined, One(HumanNameTV(1))}}

AllCallbacks ==
  {"onEnterResource", "onEnterObject", "visitProperty", "onExitObject", "onExitResource"}

\* the visitors the crawl is run with: every callback, or only some
Visitors ==
  {AllCallbacks, {}, {"visitProperty"}, {"onEnterObject", "onExitObject"},
   {"onEnterResource", "onExitResource"}, {"onExitObject"},
   AllCallbacks \ {"visitProperty"}}

SchemaArgs == {NoSchema, ProfileSchema, SimpleSchema}
\* omitted, 'Bundle.entry', and the empty string
InitialPathArgs == {NoPath, <<"Bundle", "entry">>, <<"">>}

\* -------------------------------------------------------------------- state
VARIABLES
  rootResource,    \* crawlResource's argument resource
  visitor,         \* the callbacks the visitor argument defines
  schemaArg,       \* the schema argument (NoSchema: omitted)
  initialPathArg,  \* the initialPath argument (NoPath: omitted)
  stack,           \* the crawlObject activations, innermost last
  log,             \* the visitor callbacks invoked so far, in order
  lookups,         \* the type names passed to getDataType so far
  raised,          \* the error object a callee threw (NoError: none)
  result           \* how crawlResource ended, and the error its caller got

\* one getNestedProperty call
VARIABLES
  npValue,         \* the argument value
  npKey,           \* the argument key
  npProfileUrl,    \* the argument profileUrl (NoProfile: omitted)
  npResult,        \* [status, values]: the sequence returned
  npCalls          \* the number of getTypedPropertyValue calls made

\* client.get calls against mockFetch
VARIABLES
  tokenExpired,    \* mockFetch's module variable
  canRefresh,      \* mockFetch's module variable
  client,          \* the client.get call in progress
  fetched,         \* the requests the call in progress gave to fetch
  unauthenticated, \* the number of onUnauthenticated calls of the call
  outcome,         \* the promise client.get returned
  gets             \* the number of client.get calls started

\* the elements ElementsInput renders
VARIABLES
  elements,        \* Object.entries(elementsContext.elements), in order
  elementsToRender \* [status, entries]: the entries that are rendered

\* main of the deploy script
VARIABLES
  stored,          \* the Project on the server
  env,             \* process.env at the integration secret names
  project,         \* main's project object
  deploy,          \* [pc, botIdx, attempt]: where main is
  ops,             \* the patch operations given to patchResource
  calls,           \* the requests made so far and how each ended
  exit             \* [status, error]: how main ended

\* one SliceInput
VARIABLES
  slice,           \* [min, max] of props.slice
  valuesState,     \* the state `values`, set by setValues
  shown,           \* the values the controls on the screen were made from
  onChange         \* [count, last]: the calls of props.onChange

\* one request to the expand-profile handler
VARIABLES
  repo,            \* the repository: url -> the StructureDefinition stored
  query,           \* req.query.url
  activations,     \* the loadNestedStructureDefinitions calls, innermost last
  deeper,          \* the outer calls not kept in activations: "none", or an
                   \* "odd" or an "even" number of them
  sent             \* [status, outcome, bundle]: what the handler answered

crawlVars == <<rootResource, visitor, schemaArg, initialPathArg, stack, log, lookups,
               raised, result>>
nestedVars == <<npValue, npKey, npProfileUrl, npResult, npCalls>>
clientVars == <<tokenExpired, canRefresh, client, fetched, unauthenticated, outcome, gets>>

elementsVars == <<elements, elementsToRender>>
deployVars == <<stored, env, project, deploy, ops, calls, exit>>
sliceVars == <<slice, valuesState, shown, onChange>>
expandVars == <<repo, query, activations, deeper, sent>>
laterVars == <<elementsVars, deployVars, sliceVars, expandVars>>
notDeployVars == <<crawlVars, nestedVars, clientVars, elementsVars, sliceVars, expandVars>>
notElementsVars == <<crawlVars, nestedVars, clientVars, deployVars, sliceVars, expandVars>>
notSliceVars == <<crawlVars, nestedVars, clientVars, elementsVars, deployVars, expandVars>>
notExpandVars == <<crawlVars, nestedVars, clientVars, elementsVars, deployVars, sliceVars>>
vars == <<crawlVars, nestedVars, clientVars, laterVars>>

\* what no step of a crawl changes: the arguments of crawlResource, and
\* the state of the other components
args == <<rootResource, visitor, schemaArg, initialPathArg, nestedVars, clientVars, laterVars>>

NoValue == TV("", Raw(<<"", 0>>, "", <<>>))

\* no getNestedProperty call is made
NestedOff ==
  /\ npValue = NoValue
  /\ npKey = <<>>
  /\ npProfileUrl = NoProfile
  /\ npResult = [status |-> "off", values |-> <<>>]
  /\ npCalls = 0

NoRequest == [method |-> "", url |-> ""]
NoOutcome == [state |-> "none", value |-> ""]

\* no client is made
ClientOff ==
  /\ tokenExpired = FALSE
  /\ canRefresh = TRUE
  /\ client = [pc |-> "off", request |-> NoRequest, onUnauthenticated |-> FALSE,
               startedExpired |-> FALSE, startedRefreshable |-> TRUE]
  /\ fetched = <<>>
  /\ unauthenticated = 0
  /\ outcome = NoOutcome
  /\ gets = 0

\* no request is made to the expand-profile handler
ExpandOff ==
  /\ repo = <<>>
  /\ query = ""
  /\ activations = <<>>
  /\ deeper = "none"
  /\ sent = [status |-> "off", outcome |-> "", bundle |-> <<>>]

\* no SliceInput is rendered
SliceOff ==
  /\ slice = [min |-> 0, max |-> 0]
  /\ valuesState = <<>>
  /\ shown = <<>>
  /\ onChange = [count |-> 0, last |-> <<>>]

\* the deploy script is not run
DeployOff ==
  /\ stored = [secret |-> [defined |-> FALSE, items |-> <<>>]]
  /\ env = <<>>
  /\ project = stored
  /\ deploy = [pc |-> "off", botIdx |-> 0, attempt |-> 0]
  /\ ops = <<>>
  /\ calls = <<>>
  /\ exit = [status |-> "running",
             error |-> [message |-> "", detail |-> "", resourceType |-> "",
                        inProgress |-> FALSE, wrapped |-> FALSE]]

\* no ElementsInput is rendered
ElementsOff ==
  /\ elements = <<>>
  /\ elementsToRender = [status |-> "off", entries |-> <<>>]

\* none of the programs other than the crawler, getNestedProperty and the
\* client runs
LaterOff == ElementsOff /\ DeployOff /\ SliceOff /\ ExpandOff

\* no crawl is made
CrawlOff ==
  /\ rootResource = NoValue.value
  /\ visitor = {}
  /\ schemaArg = [name |-> "", elements |-> <<>>]
  /\ initialPathArg = <<>>
  /\ stack = <<>>
  /\ log = <<>>
  /\ lookups = <<>>
  /\ raised = [source |-> "", type |-> "", seq |-> 0]
  /\ result = [status |-> "off", error |-> [source |-> "", type |-> "", seq |-> 0]]

Frame(obj, schema, path) ==
  [obj |-> obj, schema |-> schema, path |-> path,
   pc |-> "enterResource", keyIdx |-> 0, pending |-> <<>>]

Call(cb, path, value, schema) ==
  [cb |-> cb, path |-> path, value |-> value, schema |-> schema,
   key |-> <<>>, values |-> <<>>]

VisitCall(parent, key, path, propertyValues, schema) ==
  [cb |-> "visitProperty", path |-> path, value |-> parent, schema |-> schema,
   key |-> key, values |-> propertyValues]

VisitorError(cb, n) == [source |-> cb, type |-> "", seq |-> n]
ConfigError(type) == [source |-> "getDataType", type |-> type, seq |-> 0]

\* There is no try/catch in the crawler: the caller of crawlResource gets
\* the error object a callee threw, and every activation is abandoned.
Propagated(error) == error
\* mutant: only the innermost crawlObject is abandoned, its caller goes on
UnwoundInnermost(frames) == SubSeq(frames, 1, Len(frames) - 1)
Unwound(frames) == <<>>

Top == stack[Len(stack)]
SetTop(f) == [stack EXCEPT ![Len(stack)] = f]

Init ==
  /\ rootResource \in Resources
  /\ visitor \in Visitors
  /\ schemaArg \in SchemaArgs
  /\ initialPathArg \in InitialPathArgs
  /\ stack = <<>>
  /\ log = <<>>
  /\ lookups = <<>>
  /\ raised = NoError
  /\ result = [status |-> "idle", error |-> NoError]
  /\ NestedOff
  /\ ClientOff
  /\ LaterOff

\* a callee throws error
Throw(error) ==
  /\ raised' = error
  /\ stack' = Unwound(stack)
  /\ result' = [status |-> "threw", error |-> Propagated(error)]

\* the crawl goes on with the activations next; crawlResource returns when
\* the outermost crawlObject has returned
Continue(next) ==
  /\ stack' = next
  /\ result' = IF next = <<>> THEN [status |-> "returned", error |-> NoError]
               ELSE result
  /\ UNCHANGED raised

\* the visitor's callback entry.cb is invoked: it returns, and the crawl goes
\* on with the activations next, or it throws
Invoke(entry, next) ==
  /\ log' = Append(log, entry)
  /\ \/ Continue(next)
     \/ Throw(VisitorError(entry.cb, Len(log) + 1))

\* mutant: the crawler puts the properties of the resource in another order
CrawlResourceReordering ==
  /\ result.status = "idle"
  /\ LET resourceType == rootResource.resourceType
         lookup == schemaArg = NoSchema
         initialPath == IF PathGiven(initialPathArg) THEN initialPathArg
                        ELSE <<resourceType>>
         reordered == [rootResource EXCEPT !.fields = Reverse(rootResource.fields)]
     IN /\ lookups' = IF lookup THEN Append(lookups, resourceType) ELSE lookups
        /\ rootResource' = reordered
        /\ IF lookup /\ ~KnownType(resourceType)
             THEN Throw(ConfigError(resourceType))
             ELSE /\ stack' = <<Frame(toTypedValue(reordered),
                                      IF lookup THEN getDataType(resourceType)
                                      ELSE schemaArg,
                                      initialPath)>>
                  /\ result' = [status |-> "running", error |-> NoError]
                  /\ UNCHANGED raised
  /\ UNCHANGED <<visitor, schemaArg, initialPathArg, nestedVars, clientVars, laterVars, log>>

\* crawlResource: new ResourceCrawler(resource, visitor, schema, initialPath).crawl()
CrawlResource ==
  /\ result.status = "idle"
  /\ LET resourceType == rootResource.resourceType
         lookup == schemaArg = NoSchema
         initialPath == IF PathGiven(initialPathArg) THEN initialPathArg
                        ELSE <<resourceType>>
     IN /\ lookups' = IF lookup THEN Append(lookups, resourceType) ELSE lookups
        /\ IF lookup /\ ~KnownType(resourceType)
             THEN Throw(ConfigError(resourceType))
             ELSE /\ stack' = <<Frame(toTypedValue(rootResource),
                                      IF lookup THEN getDataType(resourceType)
                                      ELSE schemaArg,
                                      initialPath)>>
                  /\ result' = [status |-> "running", error |-> NoError]
                  /\ UNCHANGED raised
  /\ UNCHANGED <<args, log>>

\* mutant: onEnterResource is invoked for the root only
OnEnterResourceAtRoot ==
  /\ stack # <<>>
  /\ Top.pc = "enterResource"
  /\ LET next == SetTop([Top EXCEPT !.pc = "enterObject"])
     IN IF Len(stack) = 1 /\ isResource(Top.obj.value) /\ "onEnterResource" \in visitor
          THEN Invoke(Call("onEnterResource", Top.path, Top.obj, Top.schema), next)
          ELSE Continue(next) /\ UNCHANGED log
  /\ UNCHANGED <<args, lookups>>

\* crawlObject, lines 745-749
OnEnterResource ==
  /\ stack # <<>>
  /\ Top.pc = "enterResource"
  /\ LET next == SetTop([Top EXCEPT !.pc = "enterObject"])
     IN IF isResource(Top.obj.value) /\ "onEnterResource" \in visitor
          THEN Invoke(Call("onEnterResource", Top.path, Top.obj, Top.schema), next)
          ELSE Continue(next) /\ UNCHANGED log
  /\ UNCHANGED <<args, lookups>>

\* crawlObject, lines 751-753
OnEnterObject ==
  /\ stack # <<>>
  /\ Top.pc = "enterObject"
  /\ LET next == SetTop([Top EXCEPT !.pc = "properties"])
     IN IF "onEnterObject" \in visitor
          THEN Invoke(Call("onEnterObject", Top.path, Top.obj, Top.schema), next)
          ELSE Continue(next) /\ UNCHANGED log
  /\ UNCHANGED <<args, lookups>>

\* mutant: visitProperty gets the resolved values without the undefined ones
CrawlPropertyFiltered ==
  /\ stack # <<>>
  /\ Top.pc = "properties"
  /\ Top.pending = <<>>
  /\ Top.keyIdx < Len(ObjectKeys(Top.schema))
  /\ LET key == ObjectKeys(Top.schema)[Top.keyIdx + 1]
         path == PropertyPath(Top.path, key)
         propertyValues == getNestedProperty(Top.obj, key, NoProfile)
         next == SetTop([Top EXCEPT !.keyIdx = Top.keyIdx + 1,
                                    !.pending = ValuesToCrawl(propertyValues)])
     IN IF "visitProperty" \in visitor
          THEN Invoke(VisitCall(Top.obj, key, path, SelectSeq(propertyValues, Truthy),
                                Top.schema), next)
          ELSE Continue(next) /\ UNCHANGED log
  /\ UNCHANGED <<args, lookups>>

\* mutant: the values of a property are crawled only when visitProperty is
\* present
CrawlPropertyOnlyVisited ==
  /\ stack # <<>>
  /\ Top.pc = "properties"
  /\ Top.pending = <<>>
  /\ Top.keyIdx < Len(ObjectKeys(Top.schema))
  /\ LET key == ObjectKeys(Top.schema)[Top.keyIdx + 1]
         path == PropertyPath(Top.path, key)
         propertyValues == getNestedProperty(Top.obj, key, NoProfile)
         next == SetTop([Top EXCEPT !.keyIdx = Top.keyIdx + 1,
                                    !.pending = ValuesToCrawl(propertyValues)])
         skipped == SetTop([Top EXCEPT !.keyIdx = Top.keyIdx + 1])
     IN IF "visitProperty" \in visitor
          THEN Invoke(VisitCall(Top.obj, key, path, propertyValues, Top.schema), next)
          ELSE Continue(skipped) /\ UNCHANGED log
  /\ UNCHANGED <<args, lookups>>

\* crawlProperty for the next key of the loop of crawlObject, up to the loops
\* over the resolved values
CrawlProperty ==
  /\ stack # <<>>
  /\ Top.pc = "properties"
  /\ Top.pending = <<>>
  /\ Top.keyIdx < Len(ObjectKeys(Top.schema))
  /\ LET key == ObjectKeys(Top.schema)[Top.keyIdx + 1]
         path == PropertyPath(Top.path, key)
         propertyValues == getNestedProperty(Top.obj, key, NoProfile)
         next == SetTop([Top EXCEPT !.keyIdx = Top.keyIdx + 1,
                                    !.pending = ValuesToCrawl(propertyValues)])
     IN IF "visitProperty" \in visitor
          THEN Invoke(VisitCall(Top.obj, key, path, propertyValues, Top.schema), next)
          ELSE Continue(next) /\ UNCHANGED log
  /\ UNCHANGED <<args, lookups>>

\* mutant: a value whose type is unknown is skipped
CrawlPropertyValueSkipUnknown ==
  /\ stack # <<>>
  /\ Top.pc = "properties"
  /\ Top.pending # <<>>
  /\ LET value == Head(Top.pending)
         path == PropertyPath(Top.path, ObjectKeys(Top.schema)[Top.keyIdx])
         parent == SetTop([Top EXCEPT !.pending = Tail(Top.pending)])
     IN IF ~IsCrawled(value)
          THEN Continue(parent) /\ UNCHANGED lookups
          ELSE /\ lookups' = Append(lookups, value.type)
               /\ IF KnownType(value.type)
                    THEN Continue(Append(parent, Frame(value, SchemaFor(value, Top.schema), path)))
                    ELSE Continue(parent)
  /\ UNCHANGED <<args, log>>

\* mutant: the parent is crawled again, with the schema of the value
CrawlPropertyValueOfParent ==
  /\ stack # <<>>
  /\ Top.pc = "properties"
  /\ Top.pending # <<>>
  /\ LET value == Head(Top.pending)
         path == PropertyPath(Top.path, ObjectKeys(Top.schema)[Top.keyIdx])
         parent == SetTop([Top EXCEPT !.pending = Tail(Top.pending)])
     IN IF ~IsCrawled(value)
          THEN Continue(parent) /\ UNCHANGED lookups
          ELSE /\ lookups' = Append(lookups, value.type)
               /\ IF KnownType(value.type)
                    THEN Continue(Append(parent, Frame(Top.obj, SchemaFor(value, Top.schema), path)))
                    ELSE Throw(ConfigError(value.type))
  /\ UNCHANGED <<args, log>>

\* crawlPropertyValue for the next resolved value of the current key
CrawlPropertyValue ==
  /\ stack # <<>>
  /\ Top.pc = "properties"
  /\ Top.pending # <<>>
  /\ LET value == Head(Top.pending)
         path == PropertyPath(Top.path, ObjectKeys(Top.schema)[Top.keyIdx])
         parent == SetTop([Top EXCEPT !.pending = Tail(Top.pending)])
     IN IF ~IsCrawled(value)
          THEN Continue(parent) /\ UNCHANGED lookups
          ELSE /\ lookups' = Append(lookups, value.type)
               /\ IF KnownType(value.type)
                    THEN Continue(Append(parent, Frame(value, SchemaFor(value, Top.schema), path)))
                    ELSE Throw(ConfigError(value.type))
  /\ UNCHANGED <<args, log>>

\* mutant: onExitObject is invoked for resources only
OnExitObjectIfResource ==
  /\ stack # <<>>
  /\ Top.pc = "properties"
  /\ Top.pending = <<>>
  /\ Top.keyIdx = Len(ObjectKeys(Top.schema))
  /\ LET next == SetTop([Top EXCEPT !.pc = "exitResource"])
     IN IF isResource(Top.obj.value) /\ "onExitObject" \in visitor
          THEN Invoke(Call("onExitObject", Top.path, Top.obj, Top.schema), next)
          ELSE Continue(next) /\ UNCHANGED log
  /\ UNCHANGED <<args, lookups>>

\* crawlObject, lines 759-761
OnExitObject ==
  /\ stack # <<>>
  /\ Top.pc = "properties"
  /\ Top.pending = <<>>
  /\ Top.keyIdx = Len(ObjectKeys(Top.schema))
  /\ LET next == SetTop([Top EXCEPT !.pc = "exitResource"])
     IN IF "onExitObject" \in visitor
          THEN Invoke(Call("onExitObject", Top.path, Top.obj, Top.schema), next)
          ELSE Continue(next) /\ UNCHANGED log
  /\ UNCHANGED <<args, lookups>>

\* crawlObject, lines 763-766, and its return
OnExitResource ==
  /\ stack # <<>>
  /\ Top.pc = "exitResource"
  /\ LET next == SubSeq(stack, 1, Len(stack) - 1)
     IN IF isResource(Top.obj.value) /\ "onExitResource" \in visitor
          THEN Invoke(Call("onExitResource", Top.path, Top.obj, Top.schema), next)
          ELSE Continue(next) /\ UNCHANGED log
  /\ UNCHANGED <<args, lookups>>

Next ==
  \/ CrawlResource
  \/ OnEnterResource
  \/ OnEnterObject
  \/ CrawlProperty
  \/ CrawlPropertyValue
  \/ OnExitObject
  \/ OnExitResource

Spec == Init /\ [][Next]_vars

\* crawlResource is one synchronous call on one thread: while it has not
\* ended, its next statement is executed; a callback that is invoked either
\* returns or throws.
FairSpec == Spec /\ WF_vars(Next)

\* ------------------------------------------------- one getNestedProperty call
\* the values getNestedProperty is called with: resources, and values
\* within them
NestedValues ==
  {toTypedValue(resource) : resource \in Resources}
  \cup {HumanNameTV(i) : i \in 1..MaxNames}
  \cup {PeriodTV(1), GivenTV(1), ContainedTV}

NestedKeys ==
  {<<"$this">>, <<"id">>, <<"name">>, <<"missing">>,
   <<"name", "given">>, <<"name", "period">>, <<"period", "start">>,
   <<"name", "period", "start">>, <<"name", "missing", "start">>}

ProfileUrls == {NoProfile, "http://example.org/StructureDefinition/profile"}

NestedInit ==
  /\ npValue \in NestedValues
  /\ npKey \in NestedKeys
  /\ npProfileUrl \in ProfileUrls
  /\ npResult = [status |-> "idle", values |-> <<>>]
  /\ npCalls = 0
  /\ CrawlOff
  /\ ClientOff
  /\ LaterOff

\* getNestedProperty(value, key, profileUrl)
GetNestedProperty ==
  /\ npResult.status = "idle"
  /\ npResult' = [status |-> "done",
                  values |-> getNestedProperty(npValue, npKey, npProfileUrl)]
  /\ npCalls' = AccessorCalls(npValue, npKey, npProfileUrl)
  /\ UNCHANGED <<npValue, npKey, npProfileUrl, crawlVars, clientVars, laterVars>>

NestedNext == GetNestedProperty

NestedSpec == NestedInit /\ [][NestedNext]_vars

\* ------------------------------------------------- client.get and mockFetch
\* A URL is the sequence of its path segments. NoStatus: the response
\* object has no status property.
NoStatus == 0
endsWith(url, tail) ==
  Len(tail) <= Len(url) /\ SubSeq(url, Len(url) - Len(tail) + 1, Len(url)) = tail
includes(url, segment) == \E i \in 1..Len(url) : url[i] = segment

Response(status, body, expired) == [status |-> status, body |-> body, tokenExpired |-> expired]

\* mutant: oauth2/token answers with tokens whatever canRefresh is
TokenAnswerAlways(expired, refreshable) == Response(NoStatus, "tokens", expired)

\* the branch of POST oauth2/token
TokenAnswer(expired, refreshable) ==
  IF refreshable THEN Response(NoStatus, "tokens", expired)
  ELSE Response(400, "status", expired)

\* mutant: the 401 answer leaves tokenExpired set
ExpiredAnswerStillExpired(expired) ==
  IF expired THEN Response(401, "status", expired)
  ELSE Response(NoStatus, "ok", expired)

\* the branch of GET ...expired...
ExpiredAnswer(expired) ==
  IF expired THEN Response(401, "status", FALSE)
  ELSE Response(NoStatus, "ok", expired)

\* mockFetch(url, options) with the module variables tokenExpired and
\* canRefresh as arguments: the status and the body of the response, and
\* the value it leaves in tokenExpired. The if-else chain takes the first
\* branch that matches.
mockFetch(url, options, expired, refreshable) ==
  LET method == options.method
  IN IF method = "POST" /\ (\/ endsWith(url, <<"auth", "login">>)
                            \/ endsWith(url, <<"auth", "google">>)
                            \/ endsWith(url, <<"auth", "register">>))
       THEN Response(NoStatus, "profile", expired)
     ELSE IF method = "GET" /\ endsWith(url, <<"Patient", "123">>)
       THEN Response(NoStatus, "Patient", expired)
     ELSE IF method = "POST" /\ endsWith(url, <<"oauth2", "token">>)
       THEN TokenAnswer(expired, refreshable)
     ELSE IF method = "GET" /\ includes(url, "expired")
       THEN ExpiredAnswer(expired)
     ELSE IF method = "GET" /\ endsWith(url, <<"fhir", "R4", "StructureDefinition">>)
       THEN Response(NoStatus, "Bundle", expired)
     ELSE IF method = "GET" /\ endsWith(url, <<"fhir", "R4", "SearchParameter">>)
       THEN Response(NoStatus, "Bundle", expired)
     ELSE IF method = "PUT" /\ endsWith(url, <<"Patient", "777">>)
       THEN Response(304, "status", expired)
     ELSE IF method = "PUT" /\ endsWith(url, <<"Patient", "888">>)
       THEN Response(400, "OperationOutcome", expired)
     ELSE IF method = "GET" /\ endsWith(url, <<"ValueSet", "%24expand">>)
       THEN Response(NoStatus, "ValueSet", expired)
     ELSE Response(NoStatus, "request", expired)

\* ok: response.status === undefined
Ok(response) == response.status = NoStatus

\* the URLs the tests read with client.get
GetUrls ==
  {<<"x", "expired">>, <<"x", "fhir", "R4", "Patient", "123">>,
   <<"x", "expired", "Patient", "123">>, <<"x", "fhir", "R4", "Patient", "999">>}
TokenUrl == <<"x", "oauth2", "token">>

Fetched(request, response) ==
  [method |-> request.method, url |-> request.url, status |-> response.status]
ResolvedWith(value) == [state |-> "resolved", value |-> value]
RejectedWith(value) == [state |-> "rejected", value |-> value]
Pending == [state |-> "pending", value |-> ""]

ClientInit == CrawlOff /\ NestedOff /\ ClientOff /\ LaterOff

\* a test: it may set tokenExpired, it may clear canRefresh, it makes a
\* client with or without onUnauthenticated and calls client.get(url)
ClientGet ==
  /\ client.pc \in {"off", "done"}
  /\ gets < MaxGets
  /\ \E expire \in BOOLEAN, refuse \in BOOLEAN, callback \in BOOLEAN, url \in GetUrls :
       /\ tokenExpired' = (tokenExpired \/ expire)
       /\ canRefresh' = (canRefresh /\ ~refuse)
       /\ client' = [pc |-> "fetch", request |-> [method |-> "GET", url |-> url],
                     onUnauthenticated |-> callback,
                     startedExpired |-> tokenExpired',
                     startedRefreshable |-> canRefresh']
  /\ fetched' = <<>>
  /\ unauthenticated' = 0
  /\ outcome' = Pending
  /\ gets' = gets + 1
  /\ UNCHANGED <<crawlVars, nestedVars, laterVars>>

\* the client gives the request to fetch: a 401 answer starts a token
\* refresh, any other answer settles the promise
Request ==
  /\ client.pc = "fetch"
  /\ Len(fetched) < MaxFetches
  /\ LET response == mockFetch(client.request.url, [method |-> client.request.method],
                               tokenExpired, canRefresh)
     IN /\ fetched' = Append(fetched, Fetched(client.request, response))
        /\ tokenExpired' = response.tokenExpired
        /\ IF response.status = 401
             THEN /\ client' = [client EXCEPT !.pc = "refresh"]
                  /\ UNCHANGED outcome
             ELSE /\ client' = [client EXCEPT !.pc = "done"]
                  /\ outcome' = IF Ok(response) THEN ResolvedWith(response.body)
                                ELSE RejectedWith(response.body)
  /\ UNCHANGED <<canRefresh, unauthenticated, gets, crawlVars, nestedVars, laterVars>>

\* the client posts to oauth2/token: with the tokens it makes the request
\* again; without them it calls onUnauthenticated and rejects the promise
Refresh ==
  /\ client.pc = "refresh"
  /\ Len(fetched) < MaxFetches
  /\ LET request == [method |-> "POST", url |-> TokenUrl]
         response == mockFetch(request.url, [method |-> request.method],
                               tokenExpired, canRefresh)
     IN /\ fetched' = Append(fetched, Fetched(request, response))
        /\ tokenExpired' = response.tokenExpired
        /\ IF Ok(response)
             THEN /\ client' = [client EXCEPT !.pc = "fetch"]
                  /\ UNCHANGED <<outcome, unauthenticated>>
             ELSE /\ client' = [client EXCEPT !.pc = "done"]
                  /\ unauthenticated' = IF client.onUnauthenticated THEN unauthenticated + 1
                                        ELSE unauthenticated
                  /\ outcome' = RejectedWith("Failed to fetch tokens")
  /\ UNCHANGED <<canRefresh, gets, crawlVars, nestedVars, laterVars>>

ClientNext ==
  \/ ClientGet
  \/ Request
  \/ Refresh

ClientSpec == ClientInit /\ [][ClientNext]_vars

\* the promise chain of a client.get call goes on until the promise is
\* settled: every fetch is answered
FairClientSpec == ClientSpec /\ WF_vars(Request) /\ WF_vars(Refresh)

\* ------------------------------------------------------------ ElementsInput
\* An array that may be absent.
NoList == [defined |-> FALSE, items |-> <<>>]
List(items) == [defined |-> TRUE, items |-> items]

\* isPopulated(x): x is defined and not empty
isPopulated(list) == list.defined /\ Len(list.items) > 0

\* A key is the sequence of its segments: key.includes('.') is Len(key) > 1.
EXTENSION_KEYS == {<<"extension">>, <<"modifierExtension">>}
DEFAULT_IGNORED_PROPERTIES ==
  {<<"meta">>, <<"implicitRules">>, <<"contained">>, <<"extension">>, <<"modifierExtension">>}
DEFAULT_IGNORED_NON_NESTED_PROPERTIES == {<<"language">>, <<"text">>}
IGNORED_PROPERTIES == ({<<"id">>} \cup DEFAULT_IGNORED_PROPERTIES) \ EXTENSION_KEYS

\* the properties of an InternalSchemaElement the filter reads; slices is
\* element.slicing?.slices
InternalSchemaElement(type, max, fixed, slices, path) ==
  [type |-> type, max |-> max, fixed |-> fixed, slices |-> slices, path |-> path]
Entry(key, element) == [key |-> key, element |-> element]

\* mutant: an element with max 0 is kept
KeepForbidden(entry) ==
  LET key == entry.key
      element == entry.element
  IN IF ~isPopulated(element.type) THEN FALSE
     ELSE IF key = <<"url">> /\ element.fixed THEN FALSE
     ELSE IF key \in EXTENSION_KEYS /\ ~isPopulated(element.slices) THEN FALSE
     ELSE IF key \in IGNORED_PROPERTIES THEN FALSE
     ELSE IF key \in DEFAULT_IGNORED_NON_NESTED_PROPERTIES /\ Len(element.path) = 2
       THEN FALSE
     ELSE IF Len(key) > 1 THEN FALSE
     ELSE TRUE

\* the callback given to filter
Keep(entry) ==
  LET key == entry.key
      element == entry.element
  IN IF ~isPopulated(element.type) THEN FALSE
     ELSE IF element.max = 0 THEN FALSE
     ELSE IF key = <<"url">> /\ element.fixed THEN FALSE
     ELSE IF key \in EXTENSION_KEYS /\ ~isPopulated(element.slices) THEN FALSE
     ELSE IF key \in IGNORED_PROPERTIES THEN FALSE
     ELSE IF key \in DEFAULT_IGNORED_NON_NESTED_PROPERTIES /\ Len(element.path) = 2
       THEN FALSE
     ELSE IF Len(key) > 1 THEN FALSE
     ELSE TRUE

\* Object.entries(elements).filter(...): Array.prototype.filter keeps the
\* order of the entries
FilterEntries(entries) == SelectSeq(entries, Keep)

Plain(key, parent) ==
  InternalSchemaElement(List(<<"string">>), 1, FALSE, NoList, <<parent>> \o key)

\* the entries the elements mappings are made of
ElementEntries ==
  { Entry(<<"name">>, Plain(<<"name">>, "Patient")),
    Entry(<<"name">>, [Plain(<<"name">>, "Patient") EXCEPT !.max = 0]),
    Entry(<<"name">>, [Plain(<<"name">>, "Patient") EXCEPT !.type = List(<<>>)]),
    Entry(<<"identifier">>, [Plain(<<"identifier">>, "Patient") EXCEPT !.type = NoList]),
    Entry(<<"identifier">>, Plain(<<"identifier">>, "Patient")),
    Entry(<<"identifier", "use">>, Plain(<<"identifier", "use">>, "Patient")),
    Entry(<<"id">>, Plain(<<"id">>, "Patient")),
    Entry(<<"meta">>, Plain(<<"meta">>, "Patient")),
    Entry(<<"extension">>, Plain(<<"extension">>, "Patient")),
    Entry(<<"extension">>,
          [Plain(<<"extension">>, "Patient") EXCEPT !.slices = List(<<"race">>)]),
    Entry(<<"modifierExtension">>,
          [Plain(<<"modifierExtension">>, "Patient") EXCEPT !.slices = List(<<>>)]),
    Entry(<<"url">>, [Plain(<<"url">>, "Extension") EXCEPT !.fixed = TRUE]),
    Entry(<<"url">>, Plain(<<"url">>, "Extension")),
    Entry(<<"text">>, Plain(<<"text">>, "Patient")),
    Entry(<<"text">>, Plain(<<"section", "text">>, "Composition")) }

\* the elements mappings: an object has each key once
ElementsMappings ==
  {entries \in UNION {[1..n -> ElementEntries] : n \in 0..MaxElements} :
     \A i, j \in 1..Len(entries) : entries[i].key = entries[j].key => i = j}

ElementsInit ==
  /\ elements \in ElementsMappings
  /\ elementsToRender = [status |-> "idle", entries |-> <<>>]
  /\ CrawlOff
  /\ NestedOff
  /\ ClientOff
  /\ DeployOff
  /\ SliceOff
  /\ ExpandOff

\* the useMemo callback of elementsToRender
RenderElements ==
  /\ elementsToRender.status = "idle"
  /\ elementsToRender' = [status |-> "rendered", entries |-> FilterEntries(elements)]
  /\ UNCHANGED <<elements, notElementsVars>>

ElementsNext == RenderElements

ElementsSpec == ElementsInit /\ [][ElementsNext]_vars

\* ------------------------------------------------------------ deploy script
\* the names of HEALTH_GORILLA_INTEGRATION_SECRETS, lines 22-37
AllIntegrationSecrets ==
  << "HEALTH_GORILLA_BASE_URL", "HEALTH_GORILLA_CLIENT_ID", "HEALTH_GORILLA_CLIENT_SECRET",
     "HEALTH_GORILLA_CLIENT_URI", "HEALTH_GORILLA_USER_LOGIN",
     "HEALTH_GORILLA_PROVIDER_LAB_ACCOUNT", "HEALTH_GORILLA_TENANT_ID",
     "HEALTH_GORILLA_SUBTENANT_ID", "HEALTH_GORILLA_SUBTENANT_ACCOUNT_NUMBER",
     "HEALTH_GORILLA_SCOPES", "HEALTH_GORILLA_CALLBACK_BOT_ID",
     "HEALTH_GORILLA_CALLBACK_CLIENT_ID", "HEALTH_GORILLA_CALLBACK_CLIENT_SECRET",
     "HEALTH_GORILLA_AUDIENCE_URL" >>

\* the list the model runs with: its first NumSecrets names
HEALTH_GORILLA_INTEGRATION_SECRETS == SubSeq(AllIntegrationSecrets, 1, NumSecrets)

\* the names of HEALTH_GORILLA_BOTS, lines 126-155
AllBots ==
  << "connection-test", "receive-from-health-gorilla", "send-to-health-gorilla",
     "setup-subscriptions" >>

\* the list the model runs with: its first NumBots bots
HEALTH_GORILLA_BOTS == SubSeq(AllBots, 1, NumBots)

\* the bound of the loop `for (let attempt = 0; attempt < 5; attempt++)`
DeployAttempts == 5

Range(s) == {s[i] : i \in 1..Len(s)}

\* process.env[name]: unset, the empty string, or a value; `!secretVal`
\* holds for the first two
EnvValues == {"unset", "empty", "set"}
Falsy(secretVal) == secretVal \in {"unset", "empty"}

\* a patch operation; at is the path '/secret', '/secret/<index>' or
\* '/secret/-'
PatchOperation(op, at, index, name, value) ==
  [op |-> op, at |-> at, index |-> index, name |-> name, value |-> value]
Built(operations) == [threw |-> FALSE, error |-> "", ops |-> operations]
NoValueFor(secretName) == [threw |-> TRUE, error |-> secretName, ops |-> <<>>]

RECURSIVE AddOpsSkipping(_, _, _, _)
\* mutant: a name without value is left out
AddOpsSkipping(names, toBeUpdated, environment, operations) ==
  IF names = <<>> THEN Built(operations)
  ELSE LET secretName == Head(names)
           secretVal == environment[secretName]
       IN IF secretName \notin toBeUpdated \/ Falsy(secretVal)
            THEN AddOpsSkipping(Tail(names), toBeUpdated, environment, operations)
          ELSE AddOpsSkipping(Tail(names), toBeUpdated, environment,
                      Append(operations,
                             PatchOperation("add", "/secret/-", 0, secretName, secretVal)))

RECURSIVE AddOps(_, _, _, _)
\* toBeUpdated.forEach(...), lines 96-109: a Set is gone through in the
\* order its members were put in
AddOps(names, toBeUpdated, environment, operations) ==
  IF names = <<>> THEN Built(operations)
  ELSE LET secretName == Head(names)
           secretVal == environment[secretName]
       IN IF secretName \notin toBeUpdated
            THEN AddOps(Tail(names), toBeUpdated, environment, operations)
          ELSE IF Falsy(secretVal) THEN NoValueFor(secretName)
          ELSE AddOps(Tail(names), toBeUpdated, environment,
                      Append(operations, PatchOperation("add", "/secret/-", 0, secretName, secretVal)))

RECURSIVE ReplaceOpsKeepingName(_, _, _, _)
\* mutant: a name stays in toBeUpdated after its replace operation
ReplaceOpsKeepingName(secrets, index, toBeUpdated, environment) ==
  IF index >= Len(secrets) THEN [threw |-> FALSE, error |-> "", ops |-> <<>>,
                                 toBeUpdated |-> toBeUpdated]
  ELSE LET secretName == secrets[index + 1]
           secretVal == environment[secretName]
           rest == ReplaceOpsKeepingName(secrets, index + 1, toBeUpdated, environment)
       IN IF secretName \notin toBeUpdated
            THEN ReplaceOpsKeepingName(secrets, index + 1, toBeUpdated, environment)
          ELSE IF Falsy(secretVal)
            THEN [threw |-> TRUE, error |-> secretName, ops |-> <<>>,
                  toBeUpdated |-> toBeUpdated]
          ELSE [rest EXCEPT !.ops = <<PatchOperation("replace", "/secret/<index>", index,
                                                     secretName, secretVal)>> \o rest.ops]

RECURSIVE ReplaceOps(_, _, _, _)
\* secrets.forEach((secret, index) => ...), lines 77-94, from index on: the
\* replace operations, what is left of toBeUpdated, or the error thrown
ReplaceOps(secrets, index, toBeUpdated, environment) ==
  IF index >= Len(secrets) THEN [threw |-> FALSE, error |-> "", ops |-> <<>>,
                                 toBeUpdated |-> toBeUpdated]
  ELSE LET secretName == secrets[index + 1]
           secretVal == environment[secretName]
           rest == ReplaceOps(secrets, index + 1, toBeUpdated \ {secretName}, environment)
       IN IF secretName \notin toBeUpdated
            THEN ReplaceOps(secrets, index + 1, toBeUpdated, environment)
          ELSE IF Falsy(secretVal)
            THEN [threw |-> TRUE, error |-> secretName, ops |-> <<>>,
                  toBeUpdated |-> toBeUpdated]
          ELSE [rest EXCEPT !.ops = <<PatchOperation("replace", "/secret/<index>", index,
                                                     secretName, secretVal)>> \o rest.ops]

\* the ops updateProjectSecrets builds, lines 66-109, or the error it throws
BuildOps(secretList, environment) ==
  LET first == IF ~secretList.defined
                 THEN <<PatchOperation("add", "/secret", 0, "", "[]")>>
               ELSE <<>>
      secrets == IF ~secretList.defined THEN <<>> ELSE secretList.items
      replaced == ReplaceOps(secrets, 0, Range(HEALTH_GORILLA_INTEGRATION_SECRETS), environment)
  IN IF replaced.threw THEN NoValueFor(replaced.error)
     ELSE AddOps(HEALTH_GORILLA_INTEGRATION_SECRETS, replaced.toBeUpdated, environment,
                 first \o replaced.ops)

\* isOk(deployed): the outcome's id is one of the successful ones
isOk(operationOutcome) == operationOutcome.id \in {"ok", "created", "gone", "not-modified", "accepted"}

\* what a $deploy post may resolve with, and what it may reject with: an
\* OperationOutcome whose first issue says 'An update is in progress', any
\* other OperationOutcome, or an error that is not a resource
DeployResults == {[id |-> "ok"], [id |-> "not-found"]}
DeployError(resourceType, inProgress) ==
  [message |-> "$deploy", detail |-> "", resourceType |-> resourceType,
   inProgress |-> inProgress, wrapped |-> FALSE]
\* new Error(message), with the name of the secret for detail
MainError(message, detail) ==
  [message |-> message, detail |-> detail, resourceType |-> "", inProgress |-> FALSE,
   wrapped |-> FALSE]
DeployErrors ==
  {DeployError("OperationOutcome", TRUE), DeployError("OperationOutcome", FALSE),
   DeployError("", FALSE)}

\* the catch block, lines 205-212: what it throws for the error e it caught
Rethrown(e) ==
  IF isResource(e) /\ e.resourceType = "OperationOutcome" /\ ~e.inProgress
    THEN [e EXCEPT !.wrapped = TRUE]
  ELSE e

Project(secret) == [secret |-> secret]
SecretNames == Range(HEALTH_GORILLA_INTEGRATION_SECRETS) \cup {"OTHER_SECRET"}
\* the projects on the server: without secret list, or with a list of up to
\* MaxProjectSecrets secrets, names repeated or not
Projects ==
  {Project(NoList)}
  \cup {Project(List(secrets)) :
          secrets \in UNION {[1..n -> SecretNames] : n \in 0..MaxProjectSecrets}}
Environments == [Range(HEALTH_GORILLA_INTEGRATION_SECRETS) -> EnvValues]

Running == [status |-> "running", error |-> MainError("", "")]
Failed(error) == [status |-> "threw", error |-> error]
Ended == [status |-> "returned", error |-> MainError("", "")]

Called(op, bot, attempt, how) ==
  [op |-> op, bot |-> bot, attempt |-> attempt, result |-> how]
At(pc, botIdx, attempt) == [pc |-> pc, botIdx |-> botIdx, attempt |-> attempt]

DeployInit ==
  /\ stored \in Projects
  /\ env \in Environments
  /\ project = Project(NoList)
  /\ deploy = At("main", 0, 0)
  /\ ops = <<>>
  /\ calls = <<>>
  /\ exit = Running
  /\ CrawlOff
  /\ NestedOff
  /\ ClientOff
  /\ ElementsOff
  /\ SliceOff
  /\ ExpandOff

\* main ends with error: nothing catches it before main().catch
MainThrows(error) ==
  /\ exit' = Failed(error)
  /\ deploy' = [deploy EXCEPT !.pc = "ended"]

\* main up to the call of updateProjectSecrets, lines 39-59
Main ==
  /\ deploy.pc = "main"
  /\ \/ /\ \E error \in {"Missing environment name", "Sign in failed", "Project not found"} :
             MainThrows(MainError(error, ""))
        /\ UNCHANGED project
     \/ /\ project' = stored
        /\ deploy' = [deploy EXCEPT !.pc = "secrets"]
        /\ UNCHANGED exit
  /\ UNCHANGED <<stored, env, ops, calls, notDeployVars>>

\* updateProjectSecrets, lines 65-115: patchResource resolves or rejects
UpdateProjectSecrets ==
  /\ deploy.pc = "secrets"
  /\ LET built == BuildOps(project.secret, env)
     IN /\ project' = IF project.secret.defined THEN project ELSE Project(List(<<>>))
        /\ IF built.threw
             THEN /\ MainThrows(MainError("No value for secret", built.error))
                  /\ UNCHANGED <<ops, calls>>
             ELSE /\ ops' = built.ops
                  /\ \/ /\ calls' = Append(calls, Called("patchResource", "", 0, "resolved"))
                        /\ deploy' = At("search", 1, 0)
                        /\ UNCHANGED exit
                     \/ /\ calls' = Append(calls, Called("patchResource", "", 0, "rejected"))
                        /\ MainThrows(MainError("patchResource", ""))
  /\ UNCHANGED <<stored, env, notDeployVars>>

Bot == HEALTH_GORILLA_BOTS[deploy.botIdx]

\* medplum.searchOne('Bot', {name}), lines 159-161
SearchBot ==
  /\ deploy.pc = "search"
  /\ \/ /\ calls' = Append(calls, Called("searchOne", Bot, 0, "found"))
        /\ deploy' = [deploy EXCEPT !.pc = "update"]
        /\ UNCHANGED exit
     \/ /\ calls' = Append(calls, Called("searchOne", Bot, 0, "none"))
        /\ deploy' = [deploy EXCEPT !.pc = "create"]
        /\ UNCHANGED exit
     \/ /\ calls' = Append(calls, Called("searchOne", Bot, 0, "rejected"))
        /\ MainThrows(MainError("searchOne", ""))
  /\ UNCHANGED <<stored, env, project, ops, notDeployVars>>

\* the post that creates the Bot, lines 163-171
CreateBot ==
  /\ deploy.pc = "create"
  /\ \/ /\ calls' = Append(calls, Called("createBot", Bot, 0, "resolved"))
        /\ deploy' = [deploy EXCEPT !.pc = "update"]
        /\ UNCHANGED exit
     \/ /\ calls' = Append(calls, Called("createBot", Bot, 0, "rejected"))
        /\ MainThrows(MainError("createBot", ""))
  /\ UNCHANGED <<stored, env, project, ops, notDeployVars>>

\* updateHealthGorillaBot up to the deploy loop, lines 181-195: the
\* attachments are created and the Bot is updated, or one of the calls fails
UpdateBot ==
  /\ deploy.pc = "update"
  /\ \/ /\ calls' = Append(calls, Called("updateResource", Bot, 0, "resolved"))
        /\ deploy' = [deploy EXCEPT !.pc = "deploy", !.attempt = 0]
        /\ UNCHANGED exit
     \/ /\ calls' = Append(calls, Called("updateResource", Bot, 0, "rejected"))
        /\ MainThrows(MainError("updateResource", ""))
  /\ UNCHANGED <<stored, env, project, ops, notDeployVars>>

\* mutant: after an OperationOutcome that says 'An update is in progress'
\* the loop goes on
DeployBotRetrying ==
  /\ deploy.pc = "deploy"
  /\ deploy.attempt < DeployAttempts
  /\ \/ \E deployed \in DeployResults :
          /\ calls' = Append(calls, Called("deploy", Bot, deploy.attempt, deployed.id))
          /\ deploy' = [deploy EXCEPT !.pc = IF isOk(deployed) THEN "lambda" ELSE "sleep"]
          /\ UNCHANGED exit
     \/ \E e \in DeployErrors :
          /\ calls' = Append(calls, Called("deploy", Bot, deploy.attempt, "threw"))
          /\ IF e.inProgress
               THEN deploy' = [deploy EXCEPT !.pc = "sleep"] /\ UNCHANGED exit
               ELSE MainThrows(Rethrown(e))
  /\ UNCHANGED <<stored, env, project, ops, notDeployVars>>

\* mutant: an attempt that is OK does not leave the loop
DeployBotWithoutBreak ==
  /\ deploy.pc = "deploy"
  /\ deploy.attempt < DeployAttempts
  /\ \/ \E deployed \in DeployResults :
          /\ calls' = Append(calls, Called("deploy", Bot, deploy.attempt, deployed.id))
          /\ deploy' = [deploy EXCEPT !.pc = "sleep"]
          /\ UNCHANGED exit
     \/ \E e \in DeployErrors :
          /\ calls' = Append(calls, Called("deploy", Bot, deploy.attempt, "threw"))
          /\ MainThrows(Rethrown(e))
  /\ UNCHANGED <<stored, env, project, ops, notDeployVars>>

\* one attempt of the deploy loop, lines 198-217: the post resolves with a
\* result, OK or not, or it rejects and the catch block throws
DeployBot ==
  /\ deploy.pc = "deploy"
  /\ deploy.attempt < DeployAttempts
  /\ \/ \E deployed \in DeployResults :
          /\ calls' = Append(calls, Called("deploy", Bot, deploy.attempt, deployed.id))
          /\ deploy' = [deploy EXCEPT !.pc = IF isOk(deployed) THEN "lambda" ELSE "sleep"]
          /\ UNCHANGED exit
     \/ \E e \in DeployErrors :
          /\ calls' = Append(calls, Called("deploy", Bot, deploy.attempt, "threw"))
          /\ MainThrows(Rethrown(e))
  /\ UNCHANGED <<stored, env, project, ops, notDeployVars>>

\* sleep(1000), then attempt++ and the test of the loop, lines 219 and 197
Sleep ==
  /\ deploy.pc = "sleep"
  /\ calls' = Append(calls, Called("sleep", Bot, deploy.attempt, "resolved"))
  /\ deploy' = [deploy EXCEPT !.attempt = deploy.attempt + 1,
                              !.pc = IF deploy.attempt + 1 < DeployAttempts THEN "deploy"
                                     ELSE "lambda"]
  /\ UNCHANGED <<stored, env, project, ops, exit, notDeployVars>>

\* mutant: the lambda secrets of every bot are updated after the last bot
UpdateBotSecretsAtTheEnd ==
  /\ deploy.pc = "lambda"
  /\ IF deploy.botIdx < Len(HEALTH_GORILLA_BOTS)
       THEN /\ calls' = calls
            /\ deploy' = At("search", deploy.botIdx + 1, 0)
            /\ UNCHANGED exit
       ELSE /\ calls' = calls \o [i \in 1..Len(HEALTH_GORILLA_BOTS) |->
                                    Called("lambda", HEALTH_GORILLA_BOTS[i], 0, "resolved")]
            /\ deploy' = At("ended", deploy.botIdx, 0)
            /\ exit' = Ended
  /\ UNCHANGED <<stored, env, project, ops, notDeployVars>>

\* updateBotSecrets, lines 229-250, and the step to the next bot: a failure
\* of lambdaClient.send is caught and logged
UpdateBotSecrets ==
  /\ deploy.pc = "lambda"
  /\ calls' = Append(calls, Called("lambda", Bot, 0, "resolved"))
  /\ IF deploy.botIdx < Len(HEALTH_GORILLA_BOTS)
       THEN /\ deploy' = At("search", deploy.botIdx + 1, 0)
            /\ UNCHANGED exit
       ELSE /\ deploy' = At("ended", deploy.botIdx, 0)
            /\ exit' = Ended
  /\ UNCHANGED <<stored, env, project, ops, notDeployVars>>

DeployNext ==
  \/ Main
  \/ UpdateProjectSecrets
  \/ SearchBot
  \/ CreateBot
  \/ UpdateBot
  \/ DeployBot
  \/ Sleep
  \/ UpdateBotSecrets

DeploySpec == DeployInit /\ [][DeployNext]_vars

\* --------------------------------------------------------------- SliceInput
\* a value of a slice is "undefined", "{}" or "entered" (what the user typed)

\* props.defaultValue.map((v) => v ?? {})
OrEmptyObject(defaultValue) ==
  [i \in 1..Len(defaultValue) |->
     IF defaultValue[i] = "undefined" THEN "{}" ELSE defaultValue[i]]

\* the slices: min <= max <= MaxSlice
SliceDefinitions ==
  {s \in [min : 0..MaxSlice, max : 0..MaxSlice] : s.min <= s.max}
\* the default values: an array of slice.min to slice.max entries
DefaultValues(s) == UNION {[1..n -> {"undefined", "entered"}] : n \in s.min..s.max}

\* mutant: the add control is offered while the values are no more than max
AddOfferedAtMax(array, s) == Len(array) <= s.max

\* `values.length < slice.max &&`, line 144
AddOffered(array, s) == Len(array) < s.max

\* `values.length > slice.min &&`, line 129
RemoveOffered(array, s) == Len(array) > s.min

\* newValues.splice(valueIndex, 1), with valueIndex + 1 for index
Splice(array, index) ==
  [i \in 1..Len(array) - 1 |-> IF i < index THEN array[i] ELSE array[i + 1]]

Changed(newValues) == [count |-> onChange.count + 1, last |-> newValues]

SliceInit ==
  /\ slice \in SliceDefinitions
  /\ \E defaultValue \in DefaultValues(slice) :
       /\ valuesState = OrEmptyObject(defaultValue)
       /\ shown = valuesState
  /\ onChange = [count |-> 0, last |-> <<>>]
  /\ CrawlOff
  /\ NestedOff
  /\ ClientOff
  /\ ElementsOff
  /\ DeployOff
  /\ ExpandOff

\* setValuesWrapper(newValues), lines 86-91
setValuesWrapper(newValues) ==
  /\ valuesState' = newValues
  /\ onChange' = Changed(newValues)

\* the onClick of ArrayAddButton, lines 148-152
Add ==
  /\ onChange.count < MaxChanges
  /\ AddOffered(shown, slice)
  /\ setValuesWrapper(Append(shown, "undefined"))
  /\ UNCHANGED <<slice, shown, notSliceVars>>

\* the onClick of the ArrayRemoveButton of a value, lines 133-138
Remove ==
  /\ onChange.count < MaxChanges
  /\ RemoveOffered(shown, slice)
  /\ \E valueIndex \in 1..Len(shown) : setValuesWrapper(Splice(shown, valueIndex))
  /\ UNCHANGED <<slice, shown, notSliceVars>>

\* the onChange of the input of a value, lines 117-121
Edit ==
  /\ onChange.count < MaxChanges
  /\ \E valueIndex \in 1..Len(shown), newValue \in {"entered", "undefined"} :
       setValuesWrapper([shown EXCEPT ![valueIndex] = newValue])
  /\ UNCHANGED <<slice, shown, notSliceVars>>

\* the component is rendered again with the state set: the controls and
\* their handlers are those of the new values
RenderSlice ==
  /\ shown # valuesState
  /\ shown' = valuesState
  /\ UNCHANGED <<slice, valuesState, onChange, notSliceVars>>

SliceNext ==
  \/ Add
  \/ Remove
  \/ Edit
  \/ RenderSlice

SliceSpec == SliceInit /\ [][SliceNext]_vars

\* ---------------------------------------------------- expand-profile handler
\* the urls of the profiles that may be stored, one that never is, and no
\* url at all
ProfileUrlsStored == {"A", "B"}
MissingUrl == "X"
NoUrl == ""

\* a StructureDefinition: its url and the profiles its element types name,
\* in the order of snapshot.element; NoProfileStored: no such resource
StructureDefinition(url, profiles) == [url |-> url, profiles |-> profiles, found |-> TRUE]
NoProfileStored == [url |-> "", profiles |-> <<>>, found |-> FALSE]

\* the profiles that may be stored at url: none, or one that names up to
\* MaxRefs profiles, stored or not, itself included
ProfilesAt(url) ==
  {NoProfileStored}
  \cup {StructureDefinition(url, profiles) :
          profiles \in UNION {[1..n -> ProfileUrlsStored \cup {MissingUrl}] : n \in 0..MaxRefs}}
Repositories ==
  {repository \in [ProfileUrlsStored -> UNION {ProfilesAt(url) : url \in ProfileUrlsStored}] :
     \A url \in ProfileUrlsStored : repository[url] \in ProfilesAt(url)}

\* fetchProfileByUrl(repo, url), lines 40-57: searchOne gives the profile
\* with that url, or undefined
fetchProfileByUrl(repository, url) ==
  IF url \in DOMAIN repository THEN repository[url] ELSE NoProfileStored

\* an activation of loadNestedStructureDefinitions after `await
\* Promise.all(promises)`: the results, the index of the loop over them and
\* the response so far
Activation(repository, profile) ==
  [profile |-> profile.url,
   results |-> [i \in 1..Len(profile.profiles) |->
                  fetchProfileByUrl(repository, profile.profiles[i])],
   index |-> 0,
   response |-> <<>>]

\* bundleResults(profiles): one entry for each profile, in order
bundleResults(profiles) == [i \in 1..Len(profiles) |-> profiles[i].url]

Answer(status, operationOutcome, bundle) ==
  [status |-> status, outcome |-> operationOutcome, bundle |-> bundle]
NotAnswered == Answer("pending", "", <<>>)

ExpandInit ==
  /\ repo \in Repositories
  /\ query \in ProfileUrlsStored \cup {MissingUrl, NoUrl}
  /\ activations = <<>>
  /\ deeper = "none"
  /\ sent = NotAnswered
  /\ CrawlOff
  /\ NestedOff
  /\ ClientOff
  /\ ElementsOff
  /\ DeployOff
  /\ SliceOff

\* structureDefinitionExpandProfileHandler up to the call of
\* loadNestedStructureDefinitions, lines 16-33
ExpandProfileHandler ==
  /\ sent = NotAnswered
  /\ activations = <<>>
  /\ LET profile == fetchProfileByUrl(repo, query)
     IN IF query = NoUrl
          THEN sent' = Answer("badRequest", "Profile url not specified", <<>>)
               /\ UNCHANGED activations
        ELSE IF ~profile.found
          THEN sent' = Answer("badRequest", "Profile not found", <<>>)
               /\ UNCHANGED activations
        ELSE /\ activations' = <<Activation(repo, profile)>>
             /\ sent' = Answer("loading", "", <<>>)
  /\ UNCHANGED <<repo, query, deeper, notExpandVars>>

Innermost == activations[Len(activations)]

\* the calls after one more is made: the MaxDepth innermost ones
Deepened(nestedCalls) ==
  IF Len(nestedCalls) > MaxDepth THEN Tail(nestedCalls) ELSE nestedCalls
OneMore(outerCalls) ==
  IF outerCalls = "odd" THEN "even" ELSE "odd"

\* one turn of the loop over the results, lines 86-94, up to the recursive
\* call
LoadNested ==
  /\ activations # <<>>
  /\ Innermost.index < Len(Innermost.results)
  /\ LET found == Innermost.results[Innermost.index + 1]
         here == [Innermost EXCEPT !.index = Innermost.index + 1]
         outer == SubSeq(activations, 1, Len(activations) - 1)
         called == Append(Append(outer, [here EXCEPT !.response = Append(here.response, found)]),
                          Activation(repo, found))
     IN IF ~found.found
          THEN /\ activations' = Append(outer, here)
               /\ UNCHANGED deeper
        ELSE /\ activations' = Deepened(called)
             /\ deeper' = IF Len(called) > MaxDepth THEN OneMore(deeper) ELSE deeper
  /\ UNCHANGED <<repo, query, sent, notExpandVars>>

\* `return response`, line 98: the caller appends it to its own (line 95);
\* the handler bundles the profile and what it got and answers, lines 33-37
ReturnNested ==
  /\ activations # <<>>
  /\ Innermost.index = Len(Innermost.results)
  /\ LET nested == Innermost.response
         outer == SubSeq(activations, 1, Len(activations) - 1)
     IN IF outer = <<>>
          THEN /\ activations' = <<>>
               /\ sent' = Answer("ok", "allOk",
                                 bundleResults(<<fetchProfileByUrl(repo, query)>> \o nested))
          ELSE /\ activations' =
                    [outer EXCEPT ![Len(outer)].response = outer[Len(outer)].response \o nested]
               /\ UNCHANGED sent
  /\ UNCHANGED <<repo, query, deeper, notExpandVars>>

ExpandNext ==
  \/ ExpandProfileHandler
  \/ LoadNested
  \/ ReturnNested

ExpandSpec == ExpandInit /\ [][ExpandNext]_vars

\* the handler is an async function on the event loop: every await it makes
\* is answered, and it goes on
FairExpandSpec == ExpandSpec /\ WF_vars(ExpandNext)

\* =================================================================== claims
\* the type names that begin with a lower-case letter
PrimitiveTypes == {"id", "string", "dateTime", "url", "code"}

Returned == result.status = "returned"
Threw == result.status = "threw"
FullVisitor == visitor = AllCallbacks
RootTV == [type |-> rootResource.resourceType, value |-> rootResource]
RootSchema == IF schemaArg # NoSchema THEN schemaArg ELSE DataTypes[rootResource.resourceType]
OwnKeys(raw) == {raw.fields[i].key : i \in 1..Len(raw.fields)}
Indices(cb) == {i \in 1..Len(log) : log[i].cb = cb}

RECURSIVE ProperlyNested(_, _)
\* events is a well-bracketed sequence continuing the open enters: every
\* onExitObject closes the innermost open onEnterObject, with its path and
\* value, every visitProperty is for the innermost open object, and nothing
\* stays open
ProperlyNested(events, open) ==
  IF events = <<>> THEN open = <<>>
  ELSE LET e == Head(events)
           top == open[Len(open)]
       IN CASE e.cb = "onEnterObject" ->
                 ProperlyNested(Tail(events), Append(open, e))
            [] e.cb = "onExitObject" ->
                 /\ open # <<>>
                 /\ top.path = e.path
                 /\ top.value = e.value
                 /\ ProperlyNested(Tail(events), SubSeq(open, 1, Len(open) - 1))
            [] e.cb = "visitProperty" ->
                 /\ open # <<>>
                 /\ top.value = e.value
                 /\ ProperlyNested(Tail(events), open)
            [] OTHER -> ProperlyNested(Tail(events), open)

\* C1: in a crawl that returned, every onEnterObject at path P is closed by
\* exactly one onExitObject at P for the same value, after the visits of the
\* object's properties and after the enter/exit of every object below it: the
\* calls nest like a stack.
C1_BalancedLifecycle ==
  (Returned /\ {"onEnterObject", "onExitObject"} \subseteq visitor)
    => ProperlyNested(log, <<>>)

\* a crawl returned after it entered and left an object three levels down
C1_Witness ==
  /\ Returned
  /\ FullVisitor
  /\ \E i \in Indices("onExitObject") :
       /\ log[i].value.type = "Period"
       /\ Len(log[i].path) = 3
       /\ i < Len(log) - 2

RECURSIVE KeysInOrder(_, _)
\* open holds, for every object entered and not yet left, the number of its
\* keys visited so far: every visitProperty is for the next declared key of
\* the innermost open object, and an object is left only when every declared
\* key has been visited
KeysInOrder(events, open) ==
  IF events = <<>> THEN TRUE
  ELSE LET e == Head(events)
           n == open[Len(open)]
           popped == SubSeq(open, 1, Len(open) - 1)
       IN CASE e.cb = "onEnterObject" ->
                 KeysInOrder(Tail(events), Append(open, 0))
            [] e.cb = "visitProperty" ->
                 /\ open # <<>>
                 /\ n < Len(e.schema.elements)
                 /\ e.key = e.schema.elements[n + 1].key
                 /\ KeysInOrder(Tail(events), Append(popped, n + 1))
            [] e.cb = "onExitObject" ->
                 /\ open # <<>>
                 /\ n = Len(e.schema.elements)
                 /\ KeysInOrder(Tail(events), popped)
            [] OTHER -> KeysInOrder(Tail(events), open)

\* C2: every time crawlObject processes an object, visitProperty is invoked
\* once per declared key of the schema, in the declared order, whatever the
\* order or the presence of the properties on the value.
C2_OrderInvariant ==
  {"onEnterObject", "visitProperty", "onExitObject"} \subseteq visitor
    => KeysInOrder(log, <<>>)

\* a crawl returned for a Patient whose own properties are in another order
\* than the schema's keys and that lacks the first declared key
C2_Witness ==
  /\ Returned
  /\ FullVisitor
  /\ schemaArg = NoSchema
  /\ Len(rootResource.fields) >= 2
  /\ rootResource.fields[1].key = "contained"
  /\ "id" \notin OwnKeys(rootResource)
  /\ Cardinality(Indices("visitProperty")) >= 7

\* the descriptor of the key of the visitProperty call e
Descriptor(e) ==
  e.schema.elements[CHOOSE k \in 1..Len(e.schema.elements) :
                      e.schema.elements[k].key = e.key]

\* C3: a property whose descriptor has max = 0 gets no visitProperty call
\* (stated as the spec states it).
C3_ForbiddenNeverVisited ==
  \A i \in Indices("visitProperty") : Descriptor(log[i]).max # 0

\* C4: at a node whose value carries a resourceType, onEnterResource comes
\* right before onEnterObject and onExitResource right after onExitObject,
\* with the same path, value and schema; at any other node neither resource
\* callback is invoked.
C4_ResourceBracketing ==
  {"onEnterResource", "onEnterObject", "onExitObject", "onExitResource"} \subseteq visitor
    => \A i \in 1..Len(log) :
         LET e == log[i]
             carriesType == e.value.value.resourceType # ""
         IN /\ e.cb \in {"onEnterResource", "onExitResource"} => carriesType
            /\ (e.cb = "onEnterObject" /\ carriesType)
                 => i > 1 /\ log[i - 1] = [e EXCEPT !.cb = "onEnterResource"]
            /\ e.cb = "onEnterResource"
                 => /\ i < Len(log) => log[i + 1] = [e EXCEPT !.cb = "onEnterObject"]
                    /\ i = Len(log) => ~Returned
            /\ e.cb = "onExitResource"
                 => i > 1 /\ log[i - 1] = [e EXCEPT !.cb = "onExitObject"]
            /\ (e.cb = "onExitObject" /\ carriesType)
                 => /\ i < Len(log) => log[i + 1] = [e EXCEPT !.cb = "onExitResource"]
                    /\ i = Len(log) => ~Returned

\* a crawl returned after it left a contained resource and an object that is
\* not a resource
C4_Witness ==
  /\ Returned
  /\ FullVisitor
  /\ \E i \in Indices("onExitResource") : log[i].value.type = "Observation"
  /\ \E i \in Indices("onExitObject") : log[i].value.type = "HumanName"

\* C5: a resolved value of a primitive type is never the value of an enter
\* or exit callback nor the parent of a visitProperty call, and its type is
\* never looked up.
C5_LeafTermination ==
  /\ \A i \in 1..Len(log) : log[i].value.type \notin PrimitiveTypes
  /\ \A i \in 1..Len(lookups) : lookups[i] \notin PrimitiveTypes

\* a crawl went on after visitProperty got a string value
C5_Witness ==
  \E i \in Indices("visitProperty") :
    /\ log[i].key = <<"given">>
    /\ log[i].values # <<>>
    /\ log[i].values[1].kind = "many"
    /\ log[i].values[1].tvs[1].type = "string"
    /\ i + 2 < Len(log)

\* C6: once a visitor callback has thrown, the crawl has failed with that very
\* error object, and the throwing call is the last callback invoked.
C6_VisitorError ==
  raised.source \in AllCallbacks
    => /\ Threw
       /\ result.error = raised
       /\ Len(log) = raised.seq
       /\ log[Len(log)].cb = raised.source

\* visitProperty threw inside a name entry: no exit callback was invoked for
\* the entry nor for the enclosing resource
C6_Witness ==
  /\ Threw
  /\ raised.source = "visitProperty"
  /\ log[Len(log)].value.type = "HumanName"
  /\ log[1].cb = "onEnterResource"
  /\ Indices("onExitObject") = {}

\* C7: a lookup of a type name the Schema Provider does not know makes
\* crawlResource fail with the error of the lookup; after that no callback is
\* invoked and no lookup is repeated.
C7_ConfigurationError ==
  [][/\ (lookups' # lookups /\ lookups'[Len(lookups')] \notin DOMAIN DataTypes)
          => /\ result'.status = "threw"
             /\ raised'.source = "getDataType"
             /\ raised'.type = lookups'[Len(lookups')]
             /\ result'.error = raised'
             /\ log' = log
     /\ raised.source = "getDataType"
          => /\ log' = log
             /\ lookups' = lookups
             /\ result' = result]_vars

\* the lookup of the type of an extension value failed during the descent
C7_Witness ==
  /\ Threw
  /\ result.error = [source |-> "getDataType", type |-> "Extension_race", seq |-> 0]
  /\ Len(log) >= 5

\* C8: a declared property the instance does not carry resolves to one
\* undefined result; visitProperty is invoked once for the key, nothing is
\* descended into, and the crawler raises no error.
C8_ResolutionGap ==
  /\ \A i \in Indices("visitProperty") :
       (Len(log[i].key) = 1 /\ log[i].key[1] \notin OwnKeys(log[i].value.value))
         => /\ log[i].values = <<Undefined>>
            /\ i < Len(log) => log[i + 1].cb \notin {"onEnterResource", "onEnterObject"}
            /\ (i = Len(log) /\ Threw)
                 => raised = [source |-> "visitProperty", type |-> "", seq |-> i]
  /\ (Returned /\ "visitProperty" \in visitor)
       => \A k \in 1..Len(RootSchema.elements) :
            LET key == RootSchema.elements[k].key
            IN (Len(key) = 1 /\ key[1] \notin OwnKeys(rootResource))
                 => Cardinality({i \in Indices("visitProperty") :
                                   log[i].value = RootTV /\ log[i].key = key}) = 1

\* a crawl of a Patient without any property returned
C8_Witness ==
  /\ Returned
  /\ FullVisitor
  /\ schemaArg = NoSchema
  /\ rootResource.fields = <<>>
  /\ Cardinality(Indices("visitProperty")) = Len(DataTypes.Patient.elements)

RECURSIVE Flat(_)
\* the typed values of a resolved list, arrays element by element
Flat(values) ==
  IF values = <<>> THEN <<>> ELSE Head(values).tvs \o Flat(Tail(values))

IsCompositeTV(tv) == tv.type \notin PrimitiveTypes
Composites(values) == SelectSeq(Flat(values), IsCompositeTV)

RECURSIVE SequenceOK(_, _)
\* open holds, for every object entered and not yet left, the path of its
\* key visited last and the objects under that key still to be entered
SequenceOK(events, open) ==
  IF events = <<>> THEN TRUE
  ELSE LET e == Head(events)
           top == open[Len(open)]
           popped == SubSeq(open, 1, Len(open) - 1)
           entry == [value |-> e.value, path |-> e.path, expect |-> <<>>]
       IN CASE e.cb = "onEnterObject" ->
                 IF open = <<>> THEN SequenceOK(Tail(events), <<entry>>)
                 ELSE /\ top.expect # <<>>
                      /\ Head(top.expect) = e.value
                      /\ top.path = e.path
                      /\ SequenceOK(Tail(events),
                                    Append(popped, [top EXCEPT !.expect = Tail(top.expect)])
                                    \o <<entry>>)
            [] e.cb = "visitProperty" ->
                 /\ open # <<>>
                 /\ top.value = e.value
                 /\ top.expect = <<>>
                 /\ SequenceOK(Tail(events),
                               Append(popped, [value |-> e.value, path |-> e.path,
                                               expect |-> Composites(e.values)]))
            [] e.cb = "onExitObject" ->
                 /\ open # <<>>
                 /\ top.value = e.value
                 /\ top.expect = <<>>
                 /\ SequenceOK(Tail(events), popped)
            [] OTHER -> SequenceOK(Tail(events), open)

RootPath ==
  IF initialPathArg \in {<<>>, <<"">>} THEN <<rootResource.resourceType>> ELSE initialPathArg
AtRootLevel(e) == Len(e.path) <= Len(RootPath) + 1
Brief(events) ==
  [i \in 1..Len(events) |-> <<events[i].cb, events[i].key, events[i].value.value.oid>>]

\* C9: within one object, visitProperty for a key comes before the enter of
\* any object under that key; the objects under the key are entered and left
\* one after the other in the order of the resolved values before the next
\* key is visited, and the object is left after all of that. A Patient with
\* schema keys {id, name} and two names gives onEnterResource, onEnterObject,
\* visitProperty(id), visitProperty(name), enter/exit name[0], enter/exit
\* name[1], onExitObject, onExitResource.
C9_CallbackSequence ==
  /\ {"onEnterObject", "visitProperty", "onExitObject"} \subseteq visitor
       => SequenceOK(log, <<>>)
  /\ (/\ Returned
      /\ FullVisitor
      /\ schemaArg = SimpleSchema
      /\ rootResource.resourceType = "Patient"
      /\ "id" \in OwnKeys(rootResource)
      /\ \E f \in 1..Len(rootResource.fields) :
           rootResource.fields[f] = [key |-> "name", val |-> Many(Names(2))])
       => Brief(SelectSeq(log, AtRootLevel))
            = << <<"onEnterResource", <<>>, <<"root", 0>> >>,
                 <<"onEnterObject", <<>>, <<"root", 0>> >>,
                 <<"visitProperty", <<"id">>, <<"root", 0>> >>,
                 <<"visitProperty", <<"name">>, <<"root", 0>> >>,
                 <<"onEnterObject", <<>>, <<"name", 1>> >>,
                 <<"onExitObject", <<>>, <<"name", 1>> >>,
                 <<"onEnterObject", <<>>, <<"name", 2>> >>,
                 <<"onExitObject", <<>>, <<"name", 2>> >>,
                 <<"onExitObject", <<>>, <<"root", 0>> >>,
                 <<"onExitResource", <<>>, <<"root", 0>> >> >>

\* the crawl of the Patient with keys {id, name} and two names returned
C9_Witness ==
  /\ Returned
  /\ FullVisitor
  /\ schemaArg = SimpleSchema
  /\ rootResource.resourceType = "Patient"
  /\ "id" \in OwnKeys(rootResource)
  /\ \E f \in 1..Len(rootResource.fields) :
       rootResource.fields[f] = [key |-> "name", val |-> Many(Names(2))]
  /\ Len(SelectSeq(log, AtRootLevel)) = 10

\* the onEnterObject calls for value v at path p
EntersOf(v, p) ==
  {i \in Indices("onEnterObject") : log[i].value = v /\ log[i].path = p}

\* the places of value v in the resolved lists given to visitProperty at path p
PlacesOf(v, p) ==
  UNION {UNION {{<<i, j, m>> : m \in {n \in 1..Len(log[i].values[j].tvs) :
                                       log[i].values[j].tvs[n] = v}} :
                j \in 1..Len(log[i].values)} :
         i \in {k \in Indices("visitProperty") : log[k].path = p}}

\* C10: every value of a composite type in a resolved list, array elements
\* one by one, is entered as an object once, with the schema of its own type.
C10_CompositeDescent ==
  {"onEnterObject", "visitProperty"} \subseteq visitor
    => /\ \A i \in Indices("onEnterObject") :
            log[i].value # RootTV => log[i].schema = DataTypes[log[i].value.type]
       /\ Returned
            => \A i \in Indices("visitProperty") :
                 \A j \in 1..Len(log[i].values) :
                   \A m \in 1..Len(log[i].values[j].tvs) :
                     LET v == log[i].values[j].tvs[m]
                     IN v.type \notin PrimitiveTypes
                          => Cardinality(EntersOf(v, log[i].path))
                               = Cardinality(PlacesOf(v, log[i].path))

\* a crawl with the profile schema returned: the period of a name was
\* resolved through the dotted key and through the name, and entered twice
C10_Witness ==
  /\ Returned
  /\ FullVisitor
  /\ schemaArg = ProfileSchema
  /\ \E i \in Indices("visitProperty") :
       /\ log[i].key = <<"name", "period">>
       /\ Len(log[i].values) = 2
       /\ Cardinality(EntersOf(log[i].values[1].tvs[1], log[i].path)) = 2

\* C11: visitProperty gets the sequence getNestedProperty returned for the
\* key, as it is: one entry for a simple key, be it a single value, an array
\* or undefined.
C11_CardinalityPassthrough ==
  \A i \in Indices("visitProperty") :
    /\ log[i].values = getNestedProperty(log[i].value, log[i].key, NoProfile)
    /\ Len(log[i].key) = 1 => Len(log[i].values) = 1

\* visitProperty got a sequence with exactly one single value, a sequence
\* with an array, and a sequence whose only entry is undefined
C11_Witness ==
  /\ \E i \in Indices("visitProperty") :
       Len(log[i].values) = 1 /\ log[i].values[1].kind = "one"
  /\ \E i \in Indices("visitProperty") :
       Len(log[i].values) = 1 /\ log[i].values[1].kind = "many"
  /\ \E i \in Indices("visitProperty") : log[i].values = <<Undefined>>

NestedDone == npResult.status = "done"

\* C12: getNestedProperty(value, '$this') returns the one-element sequence
\* of the value itself, whatever the value and the profileUrl, and makes no
\* getTypedPropertyValue call.
C12_ThisIdentity ==
  (NestedDone /\ npKey = <<"$this">>)
    => /\ npResult.values = <<[kind |-> "one", tvs |-> <<npValue>>]>>
       /\ npCalls = 0

\* '$this' was resolved on a name entry with a profileUrl
C12_Witness ==
  /\ NestedDone
  /\ npKey = <<"$this">>
  /\ npProfileUrl # NoProfile
  /\ npValue.type = "HumanName"
  /\ npResult.values[1].tvs[1].value.oid = <<"name", 1>>

\* the results of resolving segment against every result, arrays element by
\* element, undefined results dropped
Expanded(results, segment, profileUrl) ==
  LET RECURSIVE From(_, _)
      From(j, m) ==
        IF j > Len(results) THEN <<>>
        ELSE IF m > Len(results[j].tvs) THEN From(j + 1, 1)
        ELSE <<getTypedPropertyValue(results[j].tvs[m], segment, profileUrl)>>
             \o From(j, m + 1)
  IN From(1, 1)

RECURSIVE Resolved(_, _, _)
\* key resolved on value, the last segment last
Resolved(value, key, profileUrl) ==
  IF Len(key) = 1 THEN <<getTypedPropertyValue(value, key[1], profileUrl)>>
  ELSE Expanded(Resolved(value, SubSeq(key, 1, Len(key) - 1), profileUrl),
                key[Len(key)], profileUrl)

\* C13: a dotted key is resolved segment by segment, left to right: every
\* result of a segment is expanded, an array element by element, and the next
\* segment is resolved on each; undefined results in between are dropped; the
\* results of the last segment stay as resolved, arrays and undefined included.
C13_DottedKeyResolution ==
  (NestedDone /\ npKey # <<"$this">>)
    => npResult.values = Resolved(npValue, npKey, npProfileUrl)

\* 'name.period.start' was resolved on a Patient with two names, of which
\* one has no period: one start resulted
C13_Witness ==
  /\ NestedDone
  /\ npKey = <<"name", "period", "start">>
  /\ npValue.type = "Patient"
  /\ getTypedPropertyValue(npValue, "name", NoProfile) = Many(Names(2))
  /\ Len(npResult.values) = 1
  /\ npResult.values[1].kind = "one"
  /\ npCalls = 4

\* the callbacks of the root: its enter and exit calls and the visits of
\* its properties
RootCalls == {i \in 1..Len(log) : log[i].value = RootTV}
PathOfObject(e) ==
  IF e.cb = "visitProperty" THEN SubSeq(e.path, 1, Len(e.path) - Len(e.key)) ELSE e.path

\* C14: the root is crawled with the Schema Provider's schema of
\* its resourceType when no schema is given and at the path of its
\* resourceType when no initialPath is given; a given schema or initialPath
\* is used instead.
C14_Defaults ==
  \A i \in RootCalls :
    /\ log[i].schema = IF schemaArg = NoSchema THEN DataTypes[rootResource.resourceType]
                       ELSE schemaArg
    /\ PathOfObject(log[i]) = IF initialPathArg = NoPath THEN <<rootResource.resourceType>>
                              ELSE initialPathArg

RECURSIVE PathsChained(_, _)
\* open holds, for every object entered and not yet left, its path and the
\* path of its key visited last
PathsChained(events, open) ==
  IF events = <<>> THEN TRUE
  ELSE LET e == Head(events)
           top == open[Len(open)]
           popped == SubSeq(open, 1, Len(open) - 1)
       IN CASE e.cb = "onEnterObject" ->
                 /\ e.path = IF open = <<>> THEN RootPath ELSE top.keyPath
                 /\ PathsChained(Tail(events),
                                 Append(open, [path |-> e.path, keyPath |-> <<>>]))
            [] e.cb = "visitProperty" ->
                 /\ open # <<>>
                 /\ e.path = top.path \o e.key
                 /\ PathsChained(Tail(events),
                                 Append(popped, [path |-> top.path, keyPath |-> e.path]))
            [] e.cb = "onExitObject" ->
                 /\ open # <<>>
                 /\ e.path = top.path
                 /\ PathsChained(Tail(events), popped)
            [] OTHER -> PathsChained(Tail(events), open)

IsPrefix(p, q) == Len(p) <= Len(q) /\ SubSeq(q, 1, Len(p)) = p

\* C15: the path given to visitProperty for key k of an object at path P is
\* P.k; every object under that property, array elements alike, is entered
\* and left at P.k; every path given to a callback starts with the initial
\* path.
C15_PathAccumulation ==
  /\ {"onEnterObject", "visitProperty", "onExitObject"} \subseteq visitor
       => PathsChained(log, <<>>)
  /\ \A i \in 1..Len(log) : IsPrefix(RootPath, log[i].path)

\* a crawl returned that entered two names at Bundle.entry.name and left a
\* period at Bundle.entry.name.period
C15_Witness ==
  /\ Returned
  /\ FullVisitor
  /\ Cardinality({i \in Indices("onEnterObject") :
                    log[i].path = <<"Bundle", "entry", "name">>}) = 2
  /\ \E i \in Indices("onExitObject") :
       log[i].path = <<"Bundle", "entry", "name", "period">>

\* C16: no step of a crawl changes the resource or the schema it was given,
\* every schema a callback gets is the given one or one of the Schema
\* Provider, and no activation is left when crawlResource has ended.
C16_ReadOnly ==
  [][/\ rootResource' = rootResource
     /\ schemaArg' = schemaArg
     /\ \A i \in 1..Len(log') :
          log'[i].schema \in {schemaArg} \cup {DataTypes[t] : t \in DOMAIN DataTypes}
     /\ result'.status \in {"returned", "threw"} => stack' = <<>>]_vars

\* a crawl of a resource with three properties or more returned after ten
\* callbacks or more
C16_Witness ==
  /\ Returned
  /\ FullVisitor
  /\ Len(rootResource.fields) >= 3
  /\ Len(log) >= 10

RECURSIVE FullTrace(_, _, _), PropertiesTrace(_, _, _, _), ValuesTrace(_, _)
\* the calls a visitor with all five callbacks gets from the crawl of obj:
\* the recursion of crawlObject written as a function
FullTrace(obj, schema, path) ==
  LET resource == isResource(obj.value)
  IN (IF resource THEN <<Call("onEnterResource", path, obj, schema)>> ELSE <<>>)
     \o <<Call("onEnterObject", path, obj, schema)>>
     \o PropertiesTrace(obj, schema, path, 1)
     \o <<Call("onExitObject", path, obj, schema)>>
     \o (IF resource THEN <<Call("onExitResource", path, obj, schema)>> ELSE <<>>)

PropertiesTrace(obj, schema, path, k) ==
  IF k > Len(schema.elements) THEN <<>>
  ELSE LET key == schema.elements[k].key
           values == getNestedProperty(obj, key, NoProfile)
       IN <<VisitCall(obj, key, path \o key, values, schema)>>
          \o ValuesTrace(Composites(values), path \o key)
          \o PropertiesTrace(obj, schema, path, k + 1)

ValuesTrace(tvs, path) ==
  IF tvs = <<>> \/ ~KnownType(Head(tvs).type) THEN <<>>
  ELSE FullTrace(Head(tvs), DataTypes[Head(tvs).type], path) \o ValuesTrace(Tail(tvs), path)

Present(e) == e.cb \in visitor

\* C17: whatever subset of the five callbacks the visitor has, no error
\* comes from a callback it lacks, the calls made so far are the first calls
\* the full visitor would get with the calls to the missing callbacks left
\* out, and a crawl that returned has made all of them.
C17_OptionalCallbacks ==
  LET expected == IF schemaArg = NoSchema /\ ~KnownType(rootResource.resourceType)
                    THEN <<>>
                  ELSE SelectSeq(FullTrace(RootTV, RootSchema, RootPath), Present)
  IN /\ raised.source \in AllCallbacks => raised.source \in visitor
     /\ IsPrefix(log, expected)
     /\ Returned => log = expected

\* a crawl with the visitor {onEnterObject, onExitObject} returned after
\* entering and leaving three objects or more
C17_Witness ==
  /\ Returned
  /\ visitor = {"onEnterObject", "onExitObject"}
  /\ Len(log) >= 6

MaxOf(S) == IF S = {} THEN 0 ELSE CHOOSE m \in S : \A n \in S : n <= m

\* the values held by the properties of an object
Children(tv) ==
  UNION {{tv.value.fields[i].val.tvs[j] : j \in 1..Len(tv.value.fields[i].val.tvs)} :
           i \in 1..Len(tv.value.fields)}

RECURSIVE NestingDepth(_)
\* the number of objects on the longest chain of nested objects of tv
NestingDepth(tv) ==
  IF tv.type \in PrimitiveTypes THEN 0
  ELSE 1 + MaxOf({NestingDepth(child) : child \in Children(tv)})

\* C18: every crawl ends, by returning or by throwing, and at no time are
\* more objects being crawled than the instance has nested objects on its
\* longest chain.
C18_Termination ==
  /\ <>(Returned \/ Threw)
  /\ [](Len(stack) <= NestingDepth(RootTV))

\* a crawl returned that went through the contained resource, whose schema
\* declares contained resources again, with three objects open at a time
C18_Witness ==
  /\ Returned
  /\ FullVisitor
  /\ \E i \in Indices("onExitResource") : log[i].value = ContainedTV
  /\ \E i \in Indices("onEnterObject") : log[i].value = PeriodTV(1)

\* the call in progress was answered 401 and then got tokens
Refreshed ==
  /\ Len(fetched) >= 2
  /\ fetched[Len(fetched) - 1].status = 401
  /\ fetched[Len(fetched)].url = TokenUrl
  /\ fetched[Len(fetched)].status = NoStatus

\* the requests of a call that was answered 401, got tokens and was made
\* again
RetriedRequests ==
  <<[method |-> "GET", url |-> client.request.url, status |-> 401],
    [method |-> "POST", url |-> TokenUrl, status |-> NoStatus],
    [method |-> "GET", url |-> client.request.url, status |-> NoStatus]>>

RECURSIVE IsSubsequence(_, _)
\* the entries of a are entries of b, in the order they have in b
IsSubsequence(a, b) ==
  IF a = <<>> THEN TRUE
  ELSE IF b = <<>> THEN FALSE
  ELSE IF Head(a) = Head(b) THEN IsSubsequence(Tail(a), Tail(b))
  ELSE IsSubsequence(a, Tail(b))

\* C21: every element ElementsInput renders has a type list that is not
\* empty, a max other than 0, a key without '.', a key that is not an
\* ignored property and, if its key is extension or modifierExtension,
\* slices; the rendered elements are in the order of the elements mapping.
C21_RenderedElementsPassFilters ==
  elementsToRender.status = "rendered" =>
    /\ \A i \in 1..Len(elementsToRender.entries) :
         LET key == elementsToRender.entries[i].key
             element == elementsToRender.entries[i].element
         IN /\ element.type.defined
            /\ element.type.items # <<>>
            /\ element.max # 0
            /\ Len(key) = 1
            /\ key \notin {<<"id">>, <<"meta">>, <<"implicitRules">>, <<"contained">>}
            /\ key \in {<<"extension">>, <<"modifierExtension">>}
                 => element.slices.defined /\ element.slices.items # <<>>
    /\ IsSubsequence(elementsToRender.entries, elements)

\* a mapping with an element of max 0 between two others was rendered: the
\* two others are rendered, in their order
C21_Witness ==
  /\ elementsToRender.status = "rendered"
  /\ Len(elements) = 3
  /\ elements[2].element.max = 0
  /\ elements[2].element.type.items # <<>>
  /\ elementsToRender.entries = <<elements[1], elements[3]>>
  /\ elements[1].key = <<"extension">>



\* ------------------------------------------------------------ deploy script
IsBotCall(call) == call.op \notin {"patchResource", "sleep"}
\* the requests made for the bots, in order
BotCalls == SelectSeq(calls, IsBotCall)
BotIndex(name) == CHOOSE k \in 1..Len(AllBots) : AllBots[k] = name
IntegrationSecrets == {AllIntegrationSecrets[k] : k \in 1..NumSecrets}

\* C22: the project is patched before the first request for a bot; the
\* bots are taken in declared order; for each, the search comes first, a Bot
\* is created only after a search that found none, then the Bot is updated,
\* then deployed, then its lambda secrets are updated, and only then does
\* the search of the next bot come.
C22_PerBotOrder ==
  /\ BotCalls # <<>> => calls[1] = Called("patchResource", "", 0, "resolved")
  /\ \A i \in 1..Len(BotCalls) :
       LET call == BotCalls[i]
           before == BotCalls[i - 1]
       IN /\ i = 1 => call.op = "searchOne" /\ call.bot = AllBots[1]
          /\ i > 1 =>
               CASE call.op = "searchOne" ->
                      /\ before.op = "lambda"
                      /\ BotIndex(call.bot) = BotIndex(before.bot) + 1
                 [] call.op = "createBot" ->
                      before = Called("searchOne", call.bot, 0, "none")
                 [] call.op = "updateResource" ->
                      before \in {Called("searchOne", call.bot, 0, "found"),
                                  Called("createBot", call.bot, 0, "resolved")}
                 [] call.op = "deploy" ->
                      \/ before = Called("updateResource", call.bot, 0, "resolved")
                      \/ /\ before.op = "deploy"
                         /\ before.bot = call.bot
                         /\ before.result # "threw"
                 [] call.op = "lambda" ->
                      /\ before.op = "deploy"
                      /\ before.bot = call.bot
                      /\ before.result # "threw"
                 [] OTHER -> FALSE
  /\ exit.status = "returned"
       => \A k \in 1..NumBots :
            Cardinality({i \in 1..Len(calls) :
                           calls[i].op = "lambda" /\ calls[i].bot = AllBots[k]}) = 1

\* main returned after the first bot was found and the second was created
C22_Witness ==
  /\ exit.status = "returned"
  /\ \E i \in 1..Len(calls) : calls[i] = Called("searchOne", AllBots[1], 0, "found")
  /\ \E i \in 1..Len(calls) : calls[i] = Called("createBot", AllBots[2], 0, "resolved")

DeploysOf(bot) == {i \in 1..Len(calls) : calls[i].op = "deploy" /\ calls[i].bot = bot}

\* C23: no bot gets more than 5 $deploy posts, none after a post whose
\* result is OK; after a post whose result is not OK comes a wait; and main
\* does not end with an error because results were not OK: after the fifth
\* such post and its wait the lambda secrets of the bot are updated.
C23_BoundedDeployRetry ==
  /\ \A k \in 1..NumBots :
       /\ Cardinality(DeploysOf(AllBots[k])) <= 5
       /\ \A i, j \in DeploysOf(AllBots[k]) : i < j => calls[i].result # "ok"
  /\ \A i \in 1..Len(calls) :
       (calls[i].op = "deploy" /\ calls[i].result \notin {"ok", "threw"})
         => /\ i = Len(calls) => deploy.pc = "sleep" /\ exit.status = "running"
            /\ i < Len(calls) => calls[i + 1].op = "sleep"
            /\ (i + 1 = Len(calls) /\ Cardinality(DeploysOf(calls[i].bot)) = 5)
                 => deploy.pc = "lambda" /\ exit.status = "running"
  /\ exit.status = "threw" /\ calls # <<>>
       => calls[Len(calls)].result \in {"rejected", "threw"}

\* main returned after five $deploy posts for the first bot, none of them OK
C23_Witness ==
  /\ exit.status = "returned"
  /\ Cardinality(DeploysOf(AllBots[1])) = 5
  /\ \A i \in DeploysOf(AllBots[1]) : calls[i].result = "not-found"
  /\ \E i \in 1..Len(calls) : calls[i] = Called("lambda", AllBots[1], 0, "resolved")

\* C24: a $deploy post that throws is the last request main makes: main
\* ends with the error caught, or with an Error made of it, and an
\* OperationOutcome that says 'An update is in progress' is thrown as it is.
C24_ThrownDeployNotRetried ==
  \A i \in 1..Len(calls) :
    (calls[i].op = "deploy" /\ calls[i].result = "threw")
      => /\ i = Len(calls)
         /\ deploy.pc = "ended"
         /\ exit.status = "threw"
         /\ exit.error.message = "$deploy"
         /\ exit.error.inProgress => ~exit.error.wrapped

\* the first $deploy post for the first bot threw an OperationOutcome that
\* says 'An update is in progress', and main has ended with it
C24_Witness ==
  /\ Len(calls) >= 1
  /\ calls[Len(calls)] = Called("deploy", AllBots[1], 0, "threw")
  /\ exit.status = "threw"
  /\ exit.error.inProgress
  /\ NumBots >= 2

SecretsOf(p) == IF p.secret.defined THEN p.secret.items ELSE <<>>
OpsFor(name) == {i \in 1..Len(ops) : ops[i].name = name}
FirstIndex(secrets, name) ==
  CHOOSE k \in 1..Len(secrets) :
    secrets[k] = name /\ \A l \in 1..Len(secrets) : secrets[l] = name => k <= l

\* C25: the operations given to patchResource have, for every integration
\* secret name, one operation: a replace at the index of the first secret of
\* the project with that name, or an add at /secret/- if the project has
\* none; they have none for another name; and they begin with an add of
\* /secret if, and only if, the project has no secret list.
C25_OneOperationPerSecret ==
  calls # <<>> =>
    LET secrets == SecretsOf(stored)
        named == {i \in 1..Len(secrets) : secrets[i] \in IntegrationSecrets}
    IN /\ \A name \in IntegrationSecrets :
            \E i \in 1..Len(ops) :
              /\ OpsFor(name) = {i}
              /\ IF \E k \in 1..Len(secrets) : secrets[k] = name
                   THEN /\ ops[i].op = "replace"
                        /\ ops[i].at = "/secret/<index>"
                        /\ ops[i].index = FirstIndex(secrets, name) - 1
                   ELSE /\ ops[i].op = "add"
                        /\ ops[i].at = "/secret/-"
       /\ \A i \in 1..Len(ops) :
            \/ ops[i].name \in IntegrationSecrets
            \/ i = 1 /\ ops[i].op = "add" /\ ops[i].at = "/secret" /\ ~stored.secret.defined
       /\ ~stored.secret.defined => Len(ops) >= 1 /\ ops[1].at = "/secret"

\* the project has another secret and then the first integration secret:
\* one replace at index 1, one add
C25_Witness ==
  /\ calls # <<>>
  /\ SecretsOf(stored) = <<"OTHER_SECRET", AllIntegrationSecrets[1]>>
  /\ Len(ops) = NumSecrets
  /\ ops[1].op = "replace"
  /\ ops[1].index = 1
  /\ ops[2].op = "add"

WithoutValue == {name \in IntegrationSecrets : env[name] # "set"}

\* C26: if some integration secret has no value in the environment, no
\* request is made, neither patchResource nor a request for a bot, and main
\* ends with the error of updateProjectSecrets.
C26_AllOrNothing ==
  (deploy.pc # "off" /\ WithoutValue # {}) =>
    /\ calls = <<>>
    /\ ops = <<>>
    /\ deploy.pc \in {"main", "secrets", "ended"}
    /\ exit.status = "returned" => FALSE
    /\ (deploy.pc = "ended" /\ exit.error.message \notin
          {"Missing environment name", "Sign in failed", "Project not found"})
         => /\ exit.error.message = "No value for secret"
            /\ exit.error.detail \in WithoutValue

\* the project has the first integration secret and the environment has a
\* value for it but none for the second: main has ended with the error, no
\* request made
C26_Witness ==
  /\ deploy.pc = "ended"
  /\ SecretsOf(stored) = <<AllIntegrationSecrets[1]>>
  /\ WithoutValue = {AllIntegrationSecrets[2]}
  /\ exit = Failed(MainError("No value for secret", AllIntegrationSecrets[2]))
  /\ calls = <<>>


\* --------------------------------------------------------------- SliceInput
\* C27: every step leaves the number of values within [slice.min,
\* slice.max]; a remove is made only from more than slice.min values and an
\* add only from fewer than slice.max; and every add, remove or edit calls
\* onChange once, with the new array.
C27_SliceCardinality ==
  [][/\ Len(valuesState') >= slice.min
     /\ Len(valuesState') <= slice.max
     /\ Len(valuesState') < Len(shown) => Len(shown) > slice.min
     /\ Len(valuesState') > Len(shown) => Len(shown) < slice.max
     /\ \/ valuesState' = valuesState /\ onChange' = onChange /\ shown' = valuesState
        \/ /\ onChange'.count = onChange.count + 1
           /\ onChange'.last = valuesState'
           /\ shown' = shown]_vars

\* the values are at slice.min again after an add that took them to
\* slice.max and a remove
C27_Witness ==
  /\ slice.min >= 1
  /\ slice.max = slice.min + 1
  /\ Len(valuesState) = slice.min
  /\ onChange.count >= 2
  /\ Len(onChange.last) = slice.min
  /\ shown # valuesState


\* ---------------------------------------------------- expand-profile handler
RECURSIVE NestedUrls(_)
\* the urls of the profiles found under the profiles named by urls, each
\* followed by those found under it
NestedUrls(urls) ==
  IF urls = <<>> THEN <<>>
  ELSE (IF Head(urls) \in DOMAIN repo /\ repo[Head(urls)].found
          THEN <<Head(urls)>> \o NestedUrls(repo[Head(urls)].profiles)
        ELSE <<>>)
       \o NestedUrls(Tail(urls))

\* C28: a request for a stored profile is answered, and the answer is the
\* bundle of the requested profile followed by the nested profiles found.
C28_ExpandTerminates ==
  /\ <>(sent.status \in {"ok", "badRequest"})
  /\ [](sent.status = "ok"
          => sent.bundle = <<query>> \o NestedUrls(repo[query].profiles))

\* an activation is waiting for the profile it is loading itself
LoadingItself ==
  \E i, j \in 1..Len(activations) : i < j /\ activations[i].profile = activations[j].profile

\* the calls not kept never get their answer: one of the calls kept is
\* waiting for its own profile, and so for ever
DeeperOnlyWhenLoadingItself == deeper # "none" => LoadingItself

====
